---- MODULE Spec2Model ----
(***************************************************************************)
(* Model of the file access and advisory locking layer of the backend      *)
(* (backend/app/data/file_handler.py): the sidecar lock marker, the retry  *)
(* loop of acquire_lock, release_lock, the locked() scope and the          *)
(* in-memory registry of active locks, and the file operations (read,      *)
(* write, delete, copy, move, directories, metadata) with the errors they  *)
(* raise.                                                                  *)
(*                                                                         *)
(* Time is counted in poll intervals (asyncio.sleep(0.01)); one caller is  *)
(* one coroutine (or one process) that uses one FileHandler instance.      *)
(* Every await of the code is a separate step of the caller, so that the   *)
(* worker threads and the other callers interleave where the code allows.  *)
(***************************************************************************)
EXTENDS Integers, Sequences, FiniteSets, TLC

\* ---------------------------------------------------------------- bounds
MaxTime == 2
MaxTimeout == 1

\* ------------------------------------------------------------- constants
PollInterval == 1

Callers == {"a", "b", "c"}
Handlers == {"h1", "h2"}

\* The callers that take part in the two-caller scenarios.
Pair == {"a", "b"}

Dirs == {"d"}
MkPath(dir, nm) == [parent |-> dir, name |-> nm]
TargetPaths == {MkPath("d", "f.txt")}

\* The paths a lock can be taken on: the domain of a registry.
LockPaths == TargetPaths \cup {MkPath("d", "g.txt"), MkPath("e", "f.txt")}
NoPath == MkPath("", "")

Timeouts == (0 - 1) .. MaxTimeout

\* ----------------------------------------------------------------- state
VARIABLES
    now,          \* time.monotonic() / datetime.now(), in poll intervals
    dirKind,      \* per directory: "absent", "dir" or "file" (a regular file)
    fsFiles,      \* the set of paths of the files that exist
    fsContent,    \* content of the target files (a sequence of values)
    registry,     \* per handler: FileHandler._active_locks
    handler,      \* per caller: the FileHandler instance it calls
    pc,           \* per caller: position in the running operation
    op,           \* per caller: the running operation
    path,         \* per caller: argument path of the running operation
    timeout,      \* per caller: argument timeout
    start_time,   \* per caller: local start_time of acquire_lock
    wake,         \* per caller: end of the running asyncio.sleep
    lock,         \* per caller: the FileLock it obtained last
    relCalls,     \* per caller: calls of release_lock on lock[c] (0, 1, 2 = more)
    exc,          \* per caller: the body of locked() raised
    cur,          \* per caller: the content the body read
    result,       \* per caller: outcome of the operation that ended last
    details,      \* per caller: details of the FileLockError raised last
    attempts,     \* per caller: calls of _try_acquire_lock_sync in this acquire
    logged,       \* per caller: the last release logged an orphan marker
    staleRelease, \* history: release_lock was called on a released FileLock
    orphaned,     \* history: markers left by a crash or a failed deletion
    args,         \* per caller: further arguments of the running file operation
    ret,          \* per caller: the value returned by the file operation
    message,      \* per caller: message of the error the file operation raised
    tokens,       \* TokenBucketRateLimiter.tokens
    since_update, \* monotonic() - last_update, up to the time that fills the bucket
    is_locked,    \* TokenBucketRateLimiter._lock is held (asyncio.Lock._locked)
    waiters,      \* the callers that wait for _lock, in the order of their calls
    want,         \* per caller: argument tokens of the running limiter acquire
    wait_time     \* what is left of the asyncio.sleep(wait_time) of the lock holder

vars == <<now, dirKind, fsFiles, fsContent, registry, handler, pc, op, path, timeout,
          start_time, wake, lock, relCalls, exc, cur, result, details,
          attempts, logged, staleRelease, orphaned, args, ret, message,
          tokens, since_update, is_locked, waiters, want, wait_time>>

fsVars == <<dirKind, fsFiles, fsContent>>
callVars == <<op, path, timeout, start_time, attempts>>
fileVars == <<args, ret, message>>
limiterVars == <<tokens, since_update, is_locked, waiters, want, wait_time>>
lockVars == <<now, registry, handler, timeout, start_time, wake, lock, relCalls,
              exc, cur, details, attempts, logged, staleRelease, orphaned,
              limiterVars>>

\* ------------------------------------------------------ FileLock, marker
\* Mutant: the marker is named <name>.lock, without the leading dot.
LockFileVisible(p) == [parent |-> p.parent, name |-> p.name \o ".lock"]

\* FileLock.lock_file: <parent>/.<name>.lock
LockFile(p) == [parent |-> p.parent, name |-> "." \o p.name \o ".lock"]

\* FileLock(path=..., acquired_at=...)
FileLock(p, t) == [path |-> p, acquired_at |-> t]
NoLock == FileLock(NoPath, 0 - 1)

MarkerPaths == {LockFile(p) : p \in TargetPaths}
AllPaths == TargetPaths \cup MarkerPaths

\* No file operation is running; no value was returned.
Args(dest, content, flag, pattern) ==
    [dest |-> dest, content |-> content, flag |-> flag, pattern |-> pattern]
NoArgs == Args(NoPath, <<>>, FALSE, <<>>)
NoRet == [kind |-> "none"]

\* details of FileLockError: path, timeout, lock_file_exists
ErrorDetails(p, t, e) == [path |-> p, timeout |-> t, lock_file_exists |-> e]
NoDetails == ErrorDetails(NoPath, 0, FALSE)

\* ------------------------------------------------ _try_acquire_lock_sync
\* What the environment does to one run of the function: nothing, or a
\* permission error / another OS error at mkdir or at os.open.
Faults == {"none", "mkdir_perm", "mkdir_os", "open_perm", "open_os"}

\* Mutant: mkdir without exist_ok.
MkdirNoExistOk(kind, fault) ==
    CASE fault = "mkdir_perm" -> "PermissionError"
      [] fault = "mkdir_os"   -> "OSError"
      [] kind # "absent"      -> "FileExistsError"
      [] OTHER                -> ""

\* lock_file.parent.mkdir(parents=True, exist_ok=True): the exception it
\* raises ("" for none). A parent that exists as a regular file makes
\* os.mkdir fail with EEXIST and, not being a directory, pathlib re-raises it.
MkdirRaises(kind, fault) ==
    CASE fault = "mkdir_perm" -> "PermissionError"
      [] fault = "mkdir_os"   -> "OSError"
      [] kind = "file"        -> "FileExistsError"
      [] OTHER                -> ""

\* Mutant: the marker is opened without O_EXCL.
OpenNoExcl(exists, fault) ==
    CASE fault = "open_perm" -> "PermissionError"
      [] fault = "open_os"   -> "OSError"
      [] OTHER               -> ""

\* os.open(lock_file, O_CREAT | O_EXCL | O_WRONLY): the exception it raises.
OpenExclRaises(exists, fault) ==
    CASE fault = "open_perm" -> "PermissionError"
      [] fault = "open_os"   -> "OSError"
      [] exists              -> "FileExistsError"
      [] OTHER               -> ""

\* The exception that leaves the try block, "" when the marker was created.
TryRaises(kind, exists, fault) ==
    IF MkdirRaises(kind, fault) # ""
    THEN MkdirRaises(kind, fault)
    ELSE OpenExclRaises(exists, fault)

\* Mutant: an existing marker is taken over as stale.
TryOutcomeTakesOver(raised) ==
    CASE raised \in {"", "FileExistsError"} -> "True"
      [] raised = "PermissionError"        -> "FileAccessError"
      [] OTHER                             -> "FileOperationError"

\* The except clauses: the value returned or the application error raised.
TryOutcome(raised) ==
    CASE raised = ""                -> "True"
      [] raised = "FileExistsError" -> "False"
      [] raised = "PermissionError" -> "FileAccessError"
      [] OTHER                      -> "FileOperationError"

\* Mutant: elapsed > timeout.
TimedOutStrict(elapsed, t) == elapsed > t

\* elapsed >= timeout
TimedOut(elapsed, t) == elapsed >= t

\* ------------------------------------------------- TokenBucketRateLimiter
\* TokenBucketRateLimiter(rate, capacity): time is counted in units of
\* 1 / rate seconds, the time in which one token is added.
Rate == 1
Capacity == 2

\* The numbers of tokens asked for: none, some, all, more than the bucket
\* ever holds.
Wants == 0 .. Capacity + 1

\* The elapsed time from which a refill fills the bucket whatever it held.
FillTime == (Capacity + Rate - 1) \div Rate

Min(x, y) == IF x <= y THEN x ELSE y

\* __init__: self.tokens = capacity; self.last_update = monotonic();
\* self._lock = asyncio.Lock()
InitBucket ==
    /\ tokens = Capacity
    /\ since_update = 0
    /\ is_locked = FALSE
    /\ waiters = <<>>
    /\ want = [c \in Callers |-> 0]
    /\ wait_time = 0

\* ------------------------------------------------------------------ Init
\* The filesystem at the start: the directory is missing, exists or is a
\* regular file; a crashed process may have left an orphaned marker.
InitFs ==
    /\ dirKind \in [Dirs -> {"absent", "dir", "file"}]
    /\ \E orphans \in SUBSET {m \in MarkerPaths : dirKind[m.parent] = "dir"} :
           fsFiles = orphans /\ orphaned = orphans
    /\ fsContent = [p \in TargetPaths |-> <<>>]

\* The state after construction of the handlers: caller "a" uses handler
\* "h1", the callers of cs use "h1" too or a FileHandler of their own.
InitFor(cs) ==
    /\ now = 0
    /\ registry = [h \in Handlers |-> [p \in LockPaths |-> NoLock]]
    \* callers share a FileHandler or have one each
    /\ handler \in {f \in [Callers -> Handlers] :
                       \A c \in Callers : c \notin cs \/ c = "a" => f[c] = "h1"}
    /\ pc = [c \in Callers |-> "idle"]
    /\ op = [c \in Callers |-> "none"]
    /\ path = [c \in Callers |-> NoPath]
    /\ timeout = [c \in Callers |-> 0]
    /\ start_time = [c \in Callers |-> 0]
    /\ wake = [c \in Callers |-> 0]
    /\ lock = [c \in Callers |-> NoLock]
    /\ relCalls = [c \in Callers |-> 0]
    /\ exc = [c \in Callers |-> FALSE]
    /\ cur = [c \in Callers |-> <<>>]
    /\ result = [c \in Callers |-> "none"]
    /\ details = [c \in Callers |-> NoDetails]
    /\ attempts = [c \in Callers |-> 0]
    /\ logged = [c \in Callers |-> FALSE]
    /\ staleRelease = FALSE
    /\ args = [c \in Callers |-> NoArgs]
    /\ ret = [c \in Callers |-> NoRet]
    /\ message = [c \in Callers |-> ""]
    /\ InitBucket

\* ---------------------------------------------------------- acquire_lock
\* The call has ended: its arguments and locals are gone.
Leave(c) ==
    /\ op' = [op EXCEPT ![c] = "none"]
    /\ path' = [path EXCEPT ![c] = NoPath]
    /\ timeout' = [timeout EXCEPT ![c] = 0]
    /\ start_time' = [start_time EXCEPT ![c] = 0]
    /\ attempts' = [attempts EXCEPT ![c] = 0]

\* Entry of acquire_lock(path, timeout), called directly (kind "acquire") or
\* by locked() (kind "locked"): lock_file and start_time are computed.
Enter(c, kind, p, t) ==
    /\ pc[c] = "idle"
    /\ now + (IF t > 0 THEN t ELSE 0) <= MaxTime
    /\ pc' = [pc EXCEPT ![c] = "try"]
    /\ op' = [op EXCEPT ![c] = kind]
    /\ path' = [path EXCEPT ![c] = p]
    /\ timeout' = [timeout EXCEPT ![c] = t]
    /\ start_time' = [start_time EXCEPT ![c] = now]
    /\ result' = [result EXCEPT ![c] = "none"]
    /\ details' = [details EXCEPT ![c] = NoDetails]
    /\ UNCHANGED <<now, fsVars, registry, handler, wake, lock, relCalls, exc,
                   cur, attempts, logged, staleRelease,
                   orphaned, fileVars, limiterVars>>

StartAcquire(c) == \E p \in TargetPaths, t \in Timeouts : Enter(c, "acquire", p, t)

\* One run of _try_acquire_lock_sync on the worker thread.
\* The directory of the marker after the run: mkdir creates a missing one.
DirAfterTry(kind, fault) ==
    IF MkdirRaises(kind, fault) = "" THEN "dir" ELSE kind

\* The files after the run: the marker exists when os.open created it.
FilesAfterTry(files, m, raised) ==
    IF raised = "" THEN files \cup {m} ELSE files

\* The caller's position once the awaited thread has returned or raised.
PcAfterTry(outcome) ==
    CASE outcome = "True"  -> "got"
      [] outcome = "False" -> "check"
      [] OTHER             -> "idle"

\* Mutant: a registry entry of the handler counts as a held lock.
AttemptChecksRegistry(c, fault) ==
    IF registry[handler[c]][path[c]] # NoLock
    THEN "FileExistsError"
    ELSE TryRaises(dirKind[path[c].parent], LockFile(path[c]) \in fsFiles, fault)

\* asyncio.to_thread(self._try_acquire_lock_sync, path, lock_file): what the
\* try block of caller c raises; only the filesystem decides.
AttemptRaises(c, fault) ==
    TryRaises(dirKind[LockFile(path[c]).parent], LockFile(path[c]) \in fsFiles, fault)

\* Mutant: waiters are served in the order of their start_time: an attempt is
\* not made while a caller that started earlier waits for the same path.
TryAcquireFifo(c) ==
    /\ \A d \in Callers \ {c} :
           ~(/\ pc[d] \in {"try", "check", "sleep"}
             /\ path[d] = path[c]
             /\ start_time[d] < start_time[c])
    /\ pc[c] = "try"
    /\ \E fault \in Faults :
        LET m == LockFile(path[c])
            raised == AttemptRaises(c, fault)
            outcome == TryOutcome(raised)
        IN  /\ dirKind' = [dirKind EXCEPT ![m.parent] = DirAfterTry(@, fault)]
            /\ fsFiles' = FilesAfterTry(fsFiles, m, raised)
            /\ pc' = [pc EXCEPT ![c] = PcAfterTry(outcome)]
            /\ IF outcome \in {"True", "False"}
               THEN /\ attempts' = [attempts EXCEPT ![c] = @ + 1]
                    /\ UNCHANGED <<result, op, path, timeout, start_time>>
               ELSE /\ result' = [result EXCEPT ![c] = outcome]
                    /\ Leave(c)
    /\ UNCHANGED <<now, fsContent, registry, handler, wake, lock, relCalls,
                   exc, cur, details, logged, staleRelease,
                   orphaned, fileVars, limiterVars>>

TryAcquire(c) ==
    /\ pc[c] = "try"
    /\ \E fault \in Faults :
        LET m == LockFile(path[c])
            raised == AttemptRaises(c, fault)
            outcome == TryOutcome(raised)
        IN  /\ dirKind' = [dirKind EXCEPT ![m.parent] = DirAfterTry(@, fault)]
            /\ fsFiles' = FilesAfterTry(fsFiles, m, raised)
            /\ pc' = [pc EXCEPT ![c] = PcAfterTry(outcome)]
            /\ IF outcome \in {"True", "False"}
               THEN /\ attempts' = [attempts EXCEPT ![c] = @ + 1]
                    /\ UNCHANGED <<result, op, path, timeout, start_time>>
               ELSE /\ result' = [result EXCEPT ![c] = outcome]
                    /\ Leave(c)
    /\ UNCHANGED <<now, fsContent, registry, handler, wake, lock, relCalls,
                   exc, cur, details, logged, staleRelease,
                   orphaned, fileVars, limiterVars>>

\* with self._locks_mutex: self._active_locks[path] = lock
Register(reg, p, l) == [reg EXCEPT ![p] = l]

\* acquired: the FileLock is built and registered, acquire_lock returns it.
\* A direct call ends here; locked() enters its body.
AcquireRegisterAt(c, at) ==
    /\ pc[c] = at
    /\ LET l == FileLock(path[c], now)
       IN  /\ registry' = [registry EXCEPT ![handler[c]] = Register(@, path[c], l)]
           /\ lock' = [lock EXCEPT ![c] = l]
    /\ relCalls' = [relCalls EXCEPT ![c] = 0]
    /\ IF op[c] \in {"locked", "rmw"}
       THEN /\ pc' = [pc EXCEPT ![c] = IF op[c] = "rmw" THEN "read" ELSE "body"]
            /\ UNCHANGED <<result, callVars>>
       ELSE /\ pc' = [pc EXCEPT ![c] = "idle"]
            /\ result' = [result EXCEPT ![c] = "acquired"]
            /\ Leave(c)
    /\ UNCHANGED <<now, fsVars, handler, wake, exc, cur, details, logged,
                   staleRelease,
                   orphaned, fileVars, limiterVars>>

AcquireRegister(c) == AcquireRegisterAt(c, "got")

\* Mutant: the loop has no timeout check and always sleeps.
AcquireCheckForever(c) ==
    /\ pc[c] = "check"
    /\ pc' = [pc EXCEPT ![c] = "sleep"]
    /\ wake' = [wake EXCEPT ![c] = now + PollInterval]
    /\ UNCHANGED <<now, fsVars, registry, handler, callVars, lock, relCalls,
                   exc, cur, result, details, logged, staleRelease,
                   orphaned, fileVars, limiterVars>>

\* not acquired: the timeout check; FileLockError or asyncio.sleep(0.01).
AcquireCheck(c) ==
    /\ pc[c] = "check"
    /\ IF TimedOut(now - start_time[c], timeout[c])
       THEN /\ pc' = [pc EXCEPT ![c] = "idle"]
            /\ result' = [result EXCEPT ![c] = "FileLockError"]
            /\ details' = [details EXCEPT ![c] =
                   ErrorDetails(path[c], timeout[c],
                                LockFile(path[c]) \in fsFiles)]
            /\ Leave(c)
            /\ UNCHANGED wake
       ELSE /\ pc' = [pc EXCEPT ![c] = "sleep"]
            /\ wake' = [wake EXCEPT ![c] = now + PollInterval]
            /\ UNCHANGED <<result, details, callVars>>
    /\ UNCHANGED <<now, fsVars, registry, handler, lock, relCalls, exc, cur,
                   logged, staleRelease,
                   orphaned, fileVars, limiterVars>>

\* Mutant: the loop tries again without waiting for the poll interval.
AcquireWakeAtOnce(c) ==
    /\ pc[c] = "sleep"
    /\ pc' = [pc EXCEPT ![c] = "try"]
    /\ wake' = [wake EXCEPT ![c] = 0]
    /\ UNCHANGED <<now, fsVars, registry, handler, callVars, lock, relCalls,
                   exc, cur, result, details, logged, staleRelease,
                   orphaned, fileVars, limiterVars>>

\* asyncio.sleep(0.01) is over: the loop tries again.
AcquireWake(c) ==
    /\ pc[c] = "sleep"
    /\ now >= wake[c]
    /\ pc' = [pc EXCEPT ![c] = "try"]
    /\ wake' = [wake EXCEPT ![c] = 0]
    /\ UNCHANGED <<now, fsVars, registry, handler, callVars, lock, relCalls,
                   exc, cur, result, details, logged, staleRelease,
                   orphaned, fileVars, limiterVars>>

\* ---------------------------------------------------------- release_lock
\* release_lock(lock) is called on the FileLock the caller obtained last,
\* also when it has been released before.
StartRelease(c) ==
    /\ pc[c] = "idle"
    /\ lock[c] # NoLock
    /\ pc' = [pc EXCEPT ![c] = "rel_sync"]
    /\ op' = [op EXCEPT ![c] = "release"]
    /\ staleRelease' = (staleRelease \/ relCalls[c] > 0)
    /\ relCalls' = [relCalls EXCEPT ![c] = IF @ = 0 THEN 1 ELSE 2]
    /\ result' = [result EXCEPT ![c] = "none"]
    /\ details' = [details EXCEPT ![c] = NoDetails]
    /\ UNCHANGED <<now, fsVars, registry, handler, path, timeout, start_time,
                   wake, lock, exc, cur, attempts, logged, orphaned, fileVars, limiterVars>>

\* Mutant: the marker is left on disk.
ReleaseKeepsMarker(files, l, fails) == files

\* _release_lock_sync: if lock.lock_file.exists(): lock.lock_file.unlink();
\* an OSError is logged and swallowed. The files after the run.
ReleaseLockSync(files, l, fails) ==
    IF LockFile(l.path) \in files /\ ~fails
    THEN files \ {LockFile(l.path)}
    ELSE files

\* Mutant: the OSError of the deletion leaves release_lock.
ReleaseRaisesOSError(fails) == IF fails THEN "idle" ELSE "rel_dereg"

\* except OSError: logger.error(...): release_lock goes on to the registry.
PcAfterReleaseSync(fails) == "rel_dereg"

ReleaseSync(c) ==
    /\ pc[c] = "rel_sync"
    /\ \E fails \in BOOLEAN :
        /\ fsFiles' = ReleaseLockSync(fsFiles, lock[c], fails)
        /\ logged' = [logged EXCEPT ![c] = fails]
        /\ pc' = [pc EXCEPT ![c] = PcAfterReleaseSync(fails)]
        /\ orphaned' = IF fails
                       THEN orphaned \cup ({LockFile(lock[c].path)} \cap fsFiles)
                       ELSE orphaned \ {LockFile(lock[c].path)}
    /\ UNCHANGED <<now, dirKind, fsContent, registry, handler, callVars, wake,
                   lock, relCalls, exc, cur, result, details, staleRelease,
                   fileVars, limiterVars>>

\* with self._locks_mutex: if lock.path in self._active_locks: del ...
Deregister(reg, l) == [reg EXCEPT ![l.path] = NoLock]

\* Mutant: del self._active_locks[lock.path] without the membership test.
DeleteUnchecked(reg, l) == reg[l.path] = NoLock

\* The deletion raises KeyError: never, it is guarded by the membership test.
DeregisterRaises(reg, l) == FALSE

\* The registry entry is dropped and release_lock returns; when locked()
\* called it, the scope is left and the body's exception propagates.
ReleaseDeregisterAt(c, at) ==
    /\ pc[c] = at
    /\ registry' = [registry EXCEPT ![handler[c]] = Deregister(@, lock[c])]
    /\ pc' = [pc EXCEPT ![c] = "idle"]
    /\ result' = [result EXCEPT ![c] =
                     CASE DeregisterRaises(registry[handler[c]], lock[c]) -> "KeyError"
                       [] op[c] = "release" -> "released"
                       [] exc[c]            -> "BodyError"
                       [] OTHER             -> "left"]
    /\ exc' = [exc EXCEPT ![c] = FALSE]
    /\ logged' = [logged EXCEPT ![c] = FALSE]
    /\ cur' = [cur EXCEPT ![c] = <<>>]
    \* the FileLock of a locked() scope is local to the scope
    /\ lock' = [lock EXCEPT ![c] = IF op[c] = "release" THEN @ ELSE NoLock]
    /\ relCalls' = [relCalls EXCEPT ![c] = IF op[c] = "release" THEN @ ELSE 0]
    /\ Leave(c)
    /\ UNCHANGED <<now, fsVars, handler, wake, details, staleRelease,
                   orphaned, fileVars, limiterVars>>

ReleaseDeregister(c) == ReleaseDeregisterAt(c, "rel_dereg")

\* ---------------------------------------------------------------- locked
StartLocked(c) == \E p \in TargetPaths, t \in Timeouts : Enter(c, "locked", p, t)

\* The body of the scope ends, normally or by an exception: finally runs
\* release_lock(lock).
BodyExit(c, raises) ==
    /\ pc[c] = "body"
    /\ exc' = [exc EXCEPT ![c] = raises]
    /\ relCalls' = [relCalls EXCEPT ![c] = 1]
    /\ pc' = [pc EXCEPT ![c] = "rel_sync"]
    /\ UNCHANGED <<now, fsVars, registry, handler, callVars, wake, lock, cur,
                   result, details, logged, staleRelease,
                   orphaned, fileVars, limiterVars>>

BodyReturn(c) == BodyExit(c, FALSE)
BodyRaise(c) == BodyExit(c, TRUE)

\* ------------------------------------------- read-modify-write in locked
\* async with handler.locked(path): current = read_file(path);
\* write_file(path, current + value). Each caller runs it once.
StartRMW(c) ==
    /\ result[c] = "none"
    /\ \E p \in TargetPaths : Enter(c, "rmw", p, MaxTimeout)

\* read_file: the content, or AppFileNotFoundError, which leaves the scope.
BodyRead(c) ==
    /\ pc[c] = "read"
    /\ IF path[c] \in fsFiles
       THEN /\ cur' = [cur EXCEPT ![c] = fsContent[path[c]]]
            /\ pc' = [pc EXCEPT ![c] = "open"]
            /\ UNCHANGED <<exc, relCalls>>
       ELSE /\ exc' = [exc EXCEPT ![c] = TRUE]
            /\ relCalls' = [relCalls EXCEPT ![c] = 1]
            /\ pc' = [pc EXCEPT ![c] = "rel_sync"]
            /\ UNCHANGED cur
    /\ UNCHANGED <<now, fsVars, registry, handler, callVars, wake, lock,
                   result, details, logged, staleRelease,
                   orphaned, fileVars, limiterVars>>

\* write_file: aiofiles.open(path, "w") creates or truncates the file.
BodyWriteOpen(c) ==
    /\ pc[c] = "open"
    /\ fsFiles' = fsFiles \cup {path[c]}
    /\ fsContent' = [fsContent EXCEPT ![path[c]] = <<>>]
    /\ pc' = [pc EXCEPT ![c] = "write"]
    /\ UNCHANGED <<now, dirKind, registry, handler, callVars, wake, lock,
                   relCalls, exc, cur, result, details, logged, staleRelease,
                   orphaned, fileVars, limiterVars>>

\* Mutant: the value replaces the content read.
Overwritten(current, value) == <<value>>

\* The content written: current + value.
Appended(current, value) == Append(current, value)

\* f.write(content) and close; the body ends and finally runs release_lock.
BodyWrite(c) ==
    /\ pc[c] = "write"
    /\ fsContent' = [fsContent EXCEPT ![path[c]] = Appended(cur[c], c)]
    /\ relCalls' = [relCalls EXCEPT ![c] = 1]
    /\ pc' = [pc EXCEPT ![c] = "rel_sync"]
    /\ UNCHANGED <<now, dirKind, fsFiles, registry, handler, callVars, wake,
                   lock, exc, cur, result, details, logged, staleRelease,
                   orphaned, fileVars, limiterVars>>

\* ------------------------------------------------------------------ time
Tick ==
    /\ now < MaxTime
    /\ now' = now + 1
    /\ UNCHANGED <<fsVars, registry, handler, pc, callVars, wake, lock,
                   relCalls, exc, cur, result, details, logged, staleRelease,
                   orphaned, fileVars, limiterVars>>

\* -------------------------------------------------------- specifications
\* Two callers call acquire_lock and release_lock directly.
Init == InitFs /\ InitFor(Pair)

Next ==
    \/ Tick
    \/ \E c \in Pair : StartAcquire(c)
    \/ \E c \in Pair : TryAcquire(c)
    \/ \E c \in Pair : AcquireRegister(c)
    \/ \E c \in Pair : AcquireCheck(c)
    \/ \E c \in Pair : AcquireWake(c)
    \/ \E c \in Pair : StartRelease(c)
    \/ \E c \in Pair : ReleaseSync(c)
    \/ \E c \in Pair : ReleaseDeregister(c)

Spec == Init /\ [][Next]_vars

\* The steps of acquire_lock of caller c.
AcquireStep(c) ==
    TryAcquire(c) \/ AcquireRegister(c) \/ AcquireCheck(c) \/ AcquireWake(c)

\* acquire_lock(path, timeout=0): one attempt, no waiting.
StartHold(c) == \E p \in TargetPaths : Enter(c, "acquire", p, 0)

\* A call of acquire_lock by caller "a" next to a caller "b" of the same
\* handler that takes the lock without waiting and releases it (also twice)
\* whenever it likes. Time advances, and the event loop runs "a" when its
\* await is over: the worker thread of an attempt returns, a sleep that is
\* over resumes. Nothing is assumed of "b".
InitFair ==
    /\ dirKind = [d \in Dirs |-> "dir"]
    /\ \E orphans \in SUBSET MarkerPaths : fsFiles = orphans /\ orphaned = orphans
    /\ fsContent = [p \in TargetPaths |-> <<>>]
    /\ InitFor({})

NextFair ==
    \/ Tick
    \/ StartAcquire("a")
    \/ TryAcquire("a")
    \/ AcquireRegister("a")
    \/ AcquireCheck("a")
    \/ AcquireWake("a")
    \/ StartHold("b")
    \/ TryAcquire("b")
    \/ AcquireRegister("b")
    \/ AcquireCheck("b")
    \/ StartRelease("b")
    \/ ReleaseSync("b")
    \/ ReleaseDeregister("b")

SpecFair ==
    /\ InitFair
    /\ [][NextFair]_vars
    /\ WF_vars(Tick)
    /\ WF_vars(AcquireStep("a"))

\* --------------------------------------------------------- two waiters
\* Callers "a" and "b" poll for a path that caller "c" of the same handler
\* locks without waiting and releases.
Holder == "c"

\* acquire_lock(path, timeout) with a timeout that makes the caller wait.
StartWait(c) == \E p \in TargetPaths, t \in 1 .. MaxTimeout : Enter(c, "acquire", p, t)

InitWait ==
    /\ dirKind = [d \in Dirs |-> "dir"]
    /\ fsFiles = {} /\ orphaned = {}
    /\ fsContent = [p \in TargetPaths |-> <<>>]
    /\ InitFor({})

NextWait ==
    \/ Tick
    \/ \E c \in Pair : StartWait(c)
    \/ \E c \in Pair : TryAcquire(c)
    \/ \E c \in Pair : AcquireRegister(c)
    \/ \E c \in Pair : AcquireCheck(c)
    \/ \E c \in Pair : AcquireWake(c)
    \/ StartHold(Holder)
    \/ TryAcquire(Holder)
    \/ AcquireRegister(Holder)
    \/ AcquireCheck(Holder)
    \/ StartRelease(Holder)
    \/ ReleaseSync(Holder)
    \/ ReleaseDeregister(Holder)

SpecWait == InitWait /\ [][NextWait]_vars

\* Two callers use the locked() scope only.
NextLocked ==
    \/ Tick
    \/ \E c \in Pair : StartLocked(c)
    \/ \E c \in Pair : TryAcquire(c)
    \/ \E c \in Pair : AcquireRegister(c)
    \/ \E c \in Pair : AcquireCheck(c)
    \/ \E c \in Pair : AcquireWake(c)
    \/ \E c \in Pair : BodyReturn(c)
    \/ \E c \in Pair : BodyRaise(c)
    \/ \E c \in Pair : ReleaseSync(c)
    \/ \E c \in Pair : ReleaseDeregister(c)

SpecLocked == Init /\ [][NextLocked]_vars

\* Every caller runs one read-modify-write of the target file in locked().
InitRMW ==
    /\ dirKind = [d \in Dirs |-> "dir"]
    /\ fsFiles \in {{}, TargetPaths}
    /\ orphaned = {}
    /\ fsContent = [p \in TargetPaths |-> <<"initial">>]
    /\ InitFor({})

NextRMW ==
    \/ Tick
    \/ \E c \in Callers : StartRMW(c)
    \/ \E c \in Callers : TryAcquire(c)
    \/ \E c \in Callers : AcquireRegister(c)
    \/ \E c \in Callers : AcquireCheck(c)
    \/ \E c \in Callers : AcquireWake(c)
    \/ \E c \in Callers : BodyRead(c)
    \/ \E c \in Callers : BodyWriteOpen(c)
    \/ \E c \in Callers : BodyWrite(c)
    \/ \E c \in Callers : ReleaseSync(c)
    \/ \E c \in Callers : ReleaseDeregister(c)

SpecRMW == InitRMW /\ [][NextRMW]_vars

\* -------------------------------------- read-modify-write without locked
\* current = read_file(path); write_file(path, current + value), and
\* delete_file(path), called without locked(path). Each caller runs one of
\* them once.
StartPlainRMW(c) ==
    /\ pc[c] = "idle" /\ result[c] = "none"
    /\ \E p \in TargetPaths :
           /\ pc' = [pc EXCEPT ![c] = "p_read"]
           /\ op' = [op EXCEPT ![c] = "plain"]
           /\ path' = [path EXCEPT ![c] = p]
    /\ UNCHANGED <<now, fsVars, registry, handler, timeout, start_time, wake,
                   lock, relCalls, exc, cur, result, details, attempts, logged,
                   staleRelease, orphaned, fileVars, limiterVars>>

StartPlainDelete(c) ==
    /\ pc[c] = "idle" /\ result[c] = "none"
    /\ \E p \in TargetPaths :
           /\ pc' = [pc EXCEPT ![c] = "p_unlink"]
           /\ op' = [op EXCEPT ![c] = "plain"]
           /\ path' = [path EXCEPT ![c] = p]
    /\ UNCHANGED <<now, fsVars, registry, handler, timeout, start_time, wake,
                   lock, relCalls, exc, cur, result, details, attempts, logged,
                   staleRelease, orphaned, fileVars, limiterVars>>

\* The call ends with outcome res.
PlainReturn(c, res) ==
    /\ pc' = [pc EXCEPT ![c] = "idle"]
    /\ result' = [result EXCEPT ![c] = res]
    /\ cur' = [cur EXCEPT ![c] = <<>>]
    /\ Leave(c)

\* read_file: the content, or AppFileNotFoundError.
PlainRead(c) ==
    /\ pc[c] = "p_read"
    /\ IF path[c] \in fsFiles
       THEN /\ cur' = [cur EXCEPT ![c] = fsContent[path[c]]]
            /\ pc' = [pc EXCEPT ![c] = "p_open"]
            /\ UNCHANGED <<result, callVars>>
       ELSE PlainReturn(c, "AppFileNotFoundError")
    /\ UNCHANGED <<now, fsVars, registry, handler, wake, lock, relCalls, exc,
                   details, logged, staleRelease, orphaned, fileVars, limiterVars>>

\* write_file: aiofiles.open(path, "w") creates or truncates the file.
PlainWriteOpen(c) ==
    /\ pc[c] = "p_open"
    /\ fsFiles' = fsFiles \cup {path[c]}
    /\ fsContent' = [fsContent EXCEPT ![path[c]] = <<>>]
    /\ pc' = [pc EXCEPT ![c] = "p_write"]
    /\ UNCHANGED <<now, dirKind, registry, handler, callVars, wake, lock,
                   relCalls, exc, cur, result, details, logged, staleRelease,
                   orphaned, fileVars, limiterVars>>

\* Mutant: write_file does not write to a path whose marker exists.
PlainWriteChecksMarker(c) ==
    /\ pc[c] = "p_write"
    /\ LockFile(path[c]) \notin fsFiles
    /\ fsContent' = [fsContent EXCEPT ![path[c]] = Appended(cur[c], c)]
    /\ PlainReturn(c, "written")
    /\ UNCHANGED <<now, dirKind, fsFiles, registry, handler, wake, lock,
                   relCalls, exc, details, logged, staleRelease, orphaned,
                   fileVars, limiterVars>>

\* f.write(content) and close.
PlainWrite(c) ==
    /\ pc[c] = "p_write"
    /\ fsContent' = [fsContent EXCEPT ![path[c]] = Appended(cur[c], c)]
    /\ PlainReturn(c, "written")
    /\ UNCHANGED <<now, dirKind, fsFiles, registry, handler, wake, lock,
                   relCalls, exc, details, logged, staleRelease, orphaned,
                   fileVars, limiterVars>>

\* _delete_file_sync: path.unlink(); FileNotFoundError returns False.
PlainDelete(c) ==
    /\ pc[c] = "p_unlink"
    /\ fsFiles' = fsFiles \ {path[c]}
    /\ PlainReturn(c, IF path[c] \in fsFiles THEN "True" ELSE "False")
    /\ UNCHANGED <<now, dirKind, fsContent, registry, handler, wake, lock,
                   relCalls, exc, details, logged, staleRelease, orphaned,
                   fileVars, limiterVars>>

\* Caller "a" runs its cycle in locked(path); callers "b" and "c" of the
\* same handler call read_file / write_file or delete_file directly.
Locker == "a"
Plain == {"b", "c"}

NextAdvisory ==
    \/ Tick
    \/ StartRMW(Locker)
    \/ TryAcquire(Locker)
    \/ AcquireRegister(Locker)
    \/ BodyRead(Locker)
    \/ BodyWriteOpen(Locker)
    \/ BodyWrite(Locker)
    \/ ReleaseSync(Locker)
    \/ ReleaseDeregister(Locker)
    \/ StartPlainRMW("b")
    \/ PlainRead("b")
    \/ PlainWriteOpen("b")
    \/ PlainWrite("b")
    \/ StartPlainDelete("c")
    \/ PlainDelete("c")

SpecAdvisory == InitRMW /\ [][NextAdvisory]_vars

\* -------------------------------------------------------- registry mutex
\* Mutant: the mutex is taken at the entry of acquire_lock and kept.
MutexSpanLoop == {"try", "check", "sleep", "got", "reg", "dereg"}

\* The positions at which a caller is inside `with self._locks_mutex:`.
MutexSpan == {"reg", "dereg"}

\* The positions at which a caller is suspended in an await: the thread that
\* creates the marker, asyncio.sleep, the thread that deletes the marker.
AwaitPoints == {"try", "sleep", "rel_sync"}

\* The callers inside the mutex of handler h.
MutexHolders(h) == {c \in Callers : handler[c] = h /\ pc[c] \in MutexSpan}

\* threading.Lock.__enter__: the caller gets the mutex of its handler when
\* no other caller is inside it.
MutexEnter(c, from, to) ==
    /\ pc[c] = from
    /\ MutexHolders(handler[c]) = {}
    /\ pc' = [pc EXCEPT ![c] = to]
    /\ UNCHANGED <<now, fsVars, registry, handler, callVars, wake, lock,
                   relCalls, exc, cur, result, details, logged, staleRelease,
                   orphaned, fileVars, limiterVars>>

MutexEnterReg(c) == MutexEnter(c, "got", "reg")
MutexEnterDereg(c) == MutexEnter(c, "rel_dereg", "dereg")

\* The statement inside the mutex runs and __exit__ frees the mutex.
RegisterLocked(c) == AcquireRegisterAt(c, "reg")
DeregisterLocked(c) == ReleaseDeregisterAt(c, "dereg")

\* Two callers, threads of one process or not, with the registry steps split
\* at the entry of the mutex.
InitMutex ==
    /\ dirKind = [d \in Dirs |-> "dir"]
    /\ \E orphans \in SUBSET MarkerPaths : fsFiles = orphans /\ orphaned = orphans
    /\ fsContent = [p \in TargetPaths |-> <<>>]
    /\ InitFor(Pair)

NextMutex ==
    \/ Tick
    \/ \E c \in Pair : StartAcquire(c)
    \/ \E c \in Pair : TryAcquire(c)
    \/ \E c \in Pair : MutexEnterReg(c)
    \/ \E c \in Pair : RegisterLocked(c)
    \/ \E c \in Pair : AcquireCheck(c)
    \/ \E c \in Pair : AcquireWake(c)
    \/ \E c \in Pair : StartRelease(c)
    \/ \E c \in Pair : ReleaseSync(c)
    \/ \E c \in Pair : MutexEnterDereg(c)
    \/ \E c \in Pair : DeregisterLocked(c)

SpecMutex == InitMutex /\ [][NextMutex]_vars

\* ------------------------------------------------------ several lock paths
\* Two callers of one handler lock and unlock any of the lock paths without
\* waiting, one lock at a time; the target files exist next to their markers.
StartAcquireAny(c) ==
    /\ lock[c] = NoLock \/ relCalls[c] > 0
    /\ \E p \in LockPaths : Enter(c, "acquire", p, 0)

InitPaths ==
    /\ dirKind = [d \in {p.parent : p \in LockPaths} |-> "dir"]
    /\ fsFiles = LockPaths
    /\ orphaned = {}
    /\ fsContent = [p \in LockPaths |-> <<>>]
    /\ InitFor({})

NextPaths ==
    \/ \E c \in Pair : StartAcquireAny(c)
    \/ \E c \in Pair : TryAcquire(c)
    \/ \E c \in Pair : AcquireRegister(c)
    \/ \E c \in Pair : AcquireCheck(c)
    \/ \E c \in Pair : StartRelease(c)
    \/ \E c \in Pair : ReleaseSync(c)
    \/ \E c \in Pair : ReleaseDeregister(c)

SpecPaths == InitPaths /\ [][NextPaths]_vars

\* ========================================================= file operations
\* The tree the file operations work on: d, d/a.txt, d/sub, d/sub/a.txt.
\* d and d/sub can be missing, a directory or a regular file, d/sub also a
\* special file (a socket, which open() refuses with ENXIO); the two a.txt
\* are regular files when they exist.
FileDirs == {"d", "d/sub"}
DirParent == [x \in FileDirs |-> IF x = "d" THEN "" ELSE "d"]

PD == MkPath("", "d")
FA == MkPath("d", "a.txt")
PS == MkPath("d", "sub")
FS == MkPath("d/sub", "a.txt")

FilePaths == {FA, FS}
DirPaths == {PD, PS}
Nodes == FilePaths \cup DirPaths

\* str(path) of a directory path.
DirName(p) == IF p.parent = "" THEN p.name ELSE p.parent \o "/" \o p.name

\* path / name
Child(p, nm) == MkPath(DirName(p), nm)

\* What is at a path: "absent", "dir", "file" or "special".
Kind(p) ==
    IF p \in DirPaths THEN dirKind[DirName(p)]
    ELSE IF p \in fsFiles THEN "file" ELSE "absent"

\* The directories from x up to the top one.
RECURSIVE UpTo(_)
UpTo(x) == IF x = "" THEN {} ELSE {x} \cup UpTo(DirParent[x])

\* The error of resolving directory x: a missing component is ENOENT, a
\* component that is a regular file is ENOTDIR.
RECURSIVE ResolveRaises(_)
ResolveRaises(x) ==
    IF x = "" THEN ""
    ELSE IF ResolveRaises(DirParent[x]) # "" THEN ResolveRaises(DirParent[x])
    ELSE CASE dirKind[x] = "absent" -> "FileNotFoundError"
           [] dirKind[x] = "dir"    -> ""
           [] OTHER                 -> "NotADirectoryError"

\* The nodes below directory path p, at any depth.
Below(p) == {q \in Nodes : DirName(p) \in UpTo(q.parent)}

\* The exception classes that derive from OSError.
OSErrors == {"OSError", "FileNotFoundError", "PermissionError",
             "FileExistsError", "IsADirectoryError", "NotADirectoryError",
             "SameFileError", "ShutilError", "DirectoryNotEmpty"}

\* What the environment does to one system call: nothing, EACCES, or
\* another error (EIO, ENOSPC, ...).
FileFaults == {"none", "perm", "os"}
FaultRaises(fault) ==
    CASE fault = "perm" -> "PermissionError"
      [] fault = "os"   -> "OSError"
      [] OTHER          -> ""

\* The first exception of a sequence of steps ("" when none raises).
First(e1, e2) == IF e1 # "" THEN e1 ELSE e2

\* open(path, "r"): the exception it raises.
OpenReadRaises(p, fault) ==
    First(FaultRaises(fault), First(ResolveRaises(p.parent),
        CASE Kind(p) = "absent"  -> "FileNotFoundError"
          [] Kind(p) = "dir"     -> "IsADirectoryError"
          [] Kind(p) = "special" -> "OSError"
          [] OTHER               -> ""))

\* open(path, "w"): the exception it raises; without one the file exists
\* and is empty afterwards.
OpenWriteRaises(p, fault) ==
    First(FaultRaises(fault), First(ResolveRaises(p.parent),
        CASE Kind(p) = "dir"     -> "IsADirectoryError"
          [] Kind(p) = "special" -> "OSError"
          [] OTHER               -> ""))

\* path.mkdir(parents=True, exist_ok=True) on directory x: a regular file on
\* the way is ENOTDIR, a regular file at x itself is EEXIST (re-raised, x
\* is no directory).
MkdirParentsRaises(x, fault) ==
    First(FaultRaises(fault),
        IF x = "" THEN ""
        ELSE IF \E y \in UpTo(DirParent[x]) : dirKind[y] \notin {"absent", "dir"}
             THEN "NotADirectoryError"
        ELSE IF dirKind[x] \notin {"absent", "dir"} THEN "FileExistsError" ELSE "")

\* The directories after mkdir(parents=True) of x went through.
DirsAfterMkdir(dk, x) == [y \in DOMAIN dk |-> IF y \in UpTo(x) THEN "dir" ELSE dk[y]]

\* path.unlink(missing_ok=True) instead: a missing path raises nothing.
UnlinkMissingOk(p, fault) ==
    First(FaultRaises(fault), First(ResolveRaises(p.parent),
        IF Kind(p) = "dir" THEN "IsADirectoryError" ELSE ""))

\* path.unlink(): the exception it raises.
UnlinkRaises(p, fault) ==
    First(FaultRaises(fault), First(ResolveRaises(p.parent),
        CASE Kind(p) = "absent" -> "FileNotFoundError"
          [] Kind(p) = "dir"    -> "IsADirectoryError"
          [] OTHER              -> ""))

\* The files and directories without the regular file at p.
FilesWithout(files, p) == files \ {p}
DirsWithout(dk, p) ==
    IF p \in DirPaths THEN [dk EXCEPT ![DirName(p)] = "absent"] ELSE dk

\* The contents once the nodes of gone are removed.
Wiped(content, gone) == [q \in DOMAIN content |-> IF q \in gone THEN <<>> ELSE content[q]]

\* The files and directories with a regular file at p.
FilesWith(files, p) == IF p \in FilePaths THEN files \cup {p} ELSE files
DirsWith(dk, p) ==
    IF p \in DirPaths THEN [dk EXCEPT ![DirName(p)] = "file"] ELSE dk

\* ------------------------------------------------------- text and bytes
\* A str is a sequence of characters, the content of a file a sequence of
\* bytes. "SUR" is a lone surrogate, "xFF" a byte that is no UTF-8.
TextInputs == {<<"a">>, <<"a", "CR", "LF">>, <<"SUR">>}
BytesInputs == {<<"a">>, <<"xFF">>}
OldContents == {<<"o", "l", "d">>, <<"xFF">>}

\* str.encode("utf-8") in f.write, after the newline translation of text
\* mode ("\n" to os.linesep, which is "\n"): the exception raised ...
EncodeRaises(text) ==
    IF \E i \in 1 .. Len(text) : text[i] = "SUR" THEN "UnicodeEncodeError" ELSE ""

\* ... and the bytes written.
Encode(text) == text

\* A file opened with errors="replace" instead: decoding never raises.
DecodeLenient(bytes) == ""

\* bytes.decode("utf-8") in f.read: the exception raised.
DecodeRaises(bytes) ==
    IF \E i \in 1 .. Len(bytes) : bytes[i] = "xFF" THEN "UnicodeDecodeError" ELSE ""

\* Universal newlines of text mode (newline=None): "\r\n" and "\r" are read
\* as "\n".
RECURSIVE Newlines(_)
Newlines(t) ==
    IF t = <<>> THEN <<>>
    ELSE IF t[1] = "CR"
         THEN IF Len(t) >= 2 /\ t[2] = "LF"
              THEN <<"LF">> \o Newlines(SubSeq(t, 3, Len(t)))
              ELSE <<"LF">> \o Newlines(Tail(t))
         ELSE <<t[1]>> \o Newlines(Tail(t))

\* The str that f.read returns in text mode.
Decode(bytes) == Newlines(bytes)

\* ------------------------------------------------- calls and their ends
\* A file operation is called: its arguments are bound.
FileCall(c, name, p, a, to) ==
    /\ pc[c] = "idle"
    /\ pc' = [pc EXCEPT ![c] = to]
    /\ op' = [op EXCEPT ![c] = name]
    /\ path' = [path EXCEPT ![c] = p]
    /\ args' = [args EXCEPT ![c] = a]
    /\ result' = [result EXCEPT ![c] = "none"]
    /\ ret' = [ret EXCEPT ![c] = NoRet]
    /\ message' = [message EXCEPT ![c] = ""]
    /\ UNCHANGED <<fsVars, lockVars>>

\* The exception caught by the except clause that raises the error: its
\* __cause__ (raise ... from e) or, without `from`, its __context__. An
\* exception that no clause catches is its own cause.
Cause(raised) == [kind |-> "cause", value |-> raised]

\* The operation returns value (res = "ok"), or raises res with message msg
\* and with value as its cause.
FileReturn(c, res, value, msg) ==
    /\ pc' = [pc EXCEPT ![c] = "idle"]
    /\ result' = [result EXCEPT ![c] = res]
    /\ ret' = [ret EXCEPT ![c] = value]
    /\ message' = [message EXCEPT ![c] = msg]
    /\ op' = [op EXCEPT ![c] = "none"]
    /\ path' = [path EXCEPT ![c] = NoPath]
    /\ args' = [args EXCEPT ![c] = NoArgs]

\* The operation goes on to its next step.
FileGoto(c, to) ==
    /\ pc' = [pc EXCEPT ![c] = to]
    /\ UNCHANGED <<op, path, args, result, ret, message>>

Content(v) == [kind |-> "content", value |-> v]
Bool(v) == [kind |-> "bool", value |-> v]
None == [kind |-> "None"]

\* ------------------------------------------------- read_file, read_bytes
\* The except clauses of read_file and read_bytes.
ReadError(raised) ==
    CASE raised = "FileNotFoundError"  -> "AppFileNotFoundError"
      [] raised = "PermissionError"    -> "FileAccessError"
      [] raised = "UnicodeDecodeError" -> "FileOperationError"
      [] raised \in OSErrors           -> "FileOperationError"
      [] OTHER                         -> raised

ReadMessage(raised) ==
    CASE raised = "FileNotFoundError"  -> "File not found"
      [] raised = "PermissionError"    -> "Permission denied reading file"
      [] raised = "UnicodeDecodeError" -> "Error reading file - file is not valid UTF-8 encoded"
      [] raised \in OSErrors           -> "Error reading file"
      [] OTHER                         -> ""

StartRead(c) ==
    \E p \in Nodes, text \in BOOLEAN :
        FileCall(c, IF text THEN "read_text" ELSE "read_bytes", p,
                 Args(NoPath, <<>>, text, <<>>), "f_read")

\* aiofiles.open(path, "r" or "rb") and f.read(): one open file, so a
\* removal of the path after the open does not change what is read.
ReadFile(c) ==
    /\ pc[c] = "f_read"
    /\ \E fault \in FileFaults :
        LET opened == OpenReadRaises(path[c], fault)
            raised == First(opened,
                            IF args[c].flag /\ opened = ""
                            THEN DecodeRaises(fsContent[path[c]]) ELSE "")
            value == IF args[c].flag THEN Decode(fsContent[path[c]])
                     ELSE fsContent[path[c]]
        IN  IF raised = ""
            THEN FileReturn(c, "ok", Content(value), "")
            ELSE FileReturn(c, ReadError(raised), Cause(raised), ReadMessage(raised))
    /\ UNCHANGED <<fsVars, lockVars>>

\* ----------------------------------------------- write_file, write_bytes
\* The except clauses of write_file and write_bytes: one try block around
\* mkdir, open and write.
WriteError(raised) ==
    CASE raised = "PermissionError" -> "FileAccessError"
      [] raised \in OSErrors        -> "FileOperationError"
      [] OTHER                      -> raised

WriteMessage(raised) ==
    CASE raised = "PermissionError" -> "Permission denied writing file"
      [] raised \in OSErrors        -> "Error writing file"
      [] OTHER                      -> ""

StartWrite(c) ==
    \E p \in FilePaths, text \in BOOLEAN :
        \E content \in IF text THEN TextInputs ELSE BytesInputs :
            FileCall(c, IF text THEN "write_text" ELSE "write_bytes", p,
                     Args(NoPath, content, text, <<>>), "f_mkdir")

\* path.parent.mkdir(parents=True, exist_ok=True)
WriteMkdir(c) ==
    /\ pc[c] = "f_mkdir"
    /\ \E fault \in FileFaults :
        LET raised == MkdirParentsRaises(path[c].parent, fault)
        IN  IF raised = ""
            THEN /\ dirKind' = DirsAfterMkdir(dirKind, path[c].parent)
                 /\ FileGoto(c, "f_open")
            ELSE /\ UNCHANGED dirKind
                 /\ FileReturn(c, WriteError(raised), Cause(raised), WriteMessage(raised))
    /\ UNCHANGED <<fsFiles, fsContent, lockVars>>

\* aiofiles.open(path, "w" or "wb"): the file is created or truncated.
WriteOpen(c) ==
    /\ pc[c] = "f_open"
    /\ \E fault \in FileFaults :
        LET raised == OpenWriteRaises(path[c], fault)
        IN  IF raised = ""
            THEN /\ fsFiles' = FilesWith(fsFiles, path[c])
                 /\ fsContent' = [fsContent EXCEPT ![path[c]] = <<>>]
                 /\ FileGoto(c, "f_data")
            ELSE /\ UNCHANGED <<fsFiles, fsContent>>
                 /\ FileReturn(c, WriteError(raised), Cause(raised), WriteMessage(raised))
    /\ UNCHANGED <<dirKind, lockVars>>

\* f.write(content) and the close: the content is encoded and written to the
\* open file, which may have been unlinked in the meantime.
WriteData(c) ==
    /\ pc[c] = "f_data"
    /\ \E fault \in FileFaults :
        LET raised == First(IF args[c].flag THEN EncodeRaises(args[c].content) ELSE "",
                            FaultRaises(fault))
            bytes == IF args[c].flag THEN Encode(args[c].content) ELSE args[c].content
        IN  IF raised = ""
            THEN /\ fsContent' = IF path[c] \in fsFiles
                                 THEN [fsContent EXCEPT ![path[c]] = bytes]
                                 ELSE fsContent
                 /\ FileReturn(c, "ok", None, "")
            ELSE /\ UNCHANGED fsContent
                 /\ FileReturn(c, WriteError(raised), Cause(raised), WriteMessage(raised))
    /\ UNCHANGED <<dirKind, fsFiles, lockVars>>

\* ------------------------------------------------------------ delete_file
\* The except clauses of _delete_file_sync; FileNotFoundError returns False.
DeleteError(raised) ==
    CASE raised = "PermissionError" -> "FileAccessError"
      [] raised \in OSErrors        -> "FileOperationError"
      [] OTHER                      -> raised

StartDelete(c) ==
    \E p \in Nodes : FileCall(c, "delete_file", p, NoArgs, "f_unlink")

\* _delete_file_sync: path.unlink()
DeleteFile(c) ==
    /\ pc[c] = "f_unlink"
    /\ \E fault \in FileFaults :
        LET raised == UnlinkRaises(path[c], fault)
        IN  CASE raised = "" ->
                   /\ fsFiles' = FilesWithout(fsFiles, path[c])
                   /\ dirKind' = DirsWithout(dirKind, path[c])
                   /\ fsContent' = Wiped(fsContent, {path[c]})
                   /\ FileReturn(c, "ok", Bool(TRUE), "")
              [] raised = "FileNotFoundError" ->
                   /\ UNCHANGED fsVars
                   /\ FileReturn(c, "ok", Bool(FALSE), "")
              [] OTHER ->
                   /\ UNCHANGED fsVars
                   /\ FileReturn(c, DeleteError(raised), Cause(raised),
                                 IF raised = "PermissionError"
                                 THEN "Permission denied deleting file"
                                 ELSE "Error deleting file")
    /\ UNCHANGED lockVars

\* --------------------------------------------------- copy_file, move_file
\* The same without the clause for FileNotFoundError.
CopyErrorNoNotFound(raised) ==
    CASE raised = "PermissionError"   -> "FileAccessError"
      [] raised \in OSErrors          -> "FileOperationError"
      [] OTHER                        -> raised

\* The except clauses around shutil.copy2 and shutil.move.
CopyError(raised) ==
    CASE raised = "FileNotFoundError" -> "AppFileNotFoundError"
      [] raised = "PermissionError"   -> "FileAccessError"
      [] raised \in OSErrors          -> "FileOperationError"
      [] OTHER                        -> raised

CopyMessage(raised, verb) ==
    CASE raised = "FileNotFoundError" -> "Source file not found"
      [] raised = "PermissionError"   -> "Permission denied " \o verb \o " file"
      [] OTHER                        -> "Error " \o verb \o " file"

\* The except clauses around destination.parent.mkdir.
DestDirError(raised) ==
    IF raised = "PermissionError" THEN "FileAccessError" ELSE "FileOperationError"

DestDirMessage(raised) ==
    IF raised = "PermissionError"
    THEN "Permission denied creating destination directory"
    ELSE "Error creating destination directory"

StartCopy(c) ==
    \E name \in {"copy_file", "move_file"}, src \in FilePaths, dst \in FilePaths \cup {PS} :
        FileCall(c, name, src, Args(dst, <<>>, FALSE, <<>>), "f_destdir")

\* Mutant: the source is looked at first; no directory is created for a
\* source that does not exist.
DestMkdirSourceFirst(c) ==
    /\ pc[c] = "f_destdir"
    /\ \E fault \in FileFaults :
        LET raised == MkdirParentsRaises(args[c].dest.parent, fault)
        IN  IF OpenReadRaises(path[c], "none") = "FileNotFoundError"
            THEN /\ UNCHANGED dirKind
                 /\ FileReturn(c, CopyError("FileNotFoundError"), Cause("FileNotFoundError"),
                               CopyMessage("FileNotFoundError", "copying"))
            ELSE IF raised = ""
            THEN /\ dirKind' = DirsAfterMkdir(dirKind, args[c].dest.parent)
                 /\ FileGoto(c, IF op[c] = "copy_file" THEN "f_copy" ELSE "f_move")
            ELSE /\ UNCHANGED dirKind
                 /\ FileReturn(c, DestDirError(raised), Cause(raised), DestDirMessage(raised))
    /\ UNCHANGED <<fsFiles, fsContent, lockVars>>

\* destination.parent.mkdir(parents=True, exist_ok=True)
DestMkdir(c) ==
    /\ pc[c] = "f_destdir"
    /\ \E fault \in FileFaults :
        LET raised == MkdirParentsRaises(args[c].dest.parent, fault)
        IN  IF raised = ""
            THEN /\ dirKind' = DirsAfterMkdir(dirKind, args[c].dest.parent)
                 /\ FileGoto(c, IF op[c] = "copy_file" THEN "f_copy" ELSE "f_move")
            ELSE /\ UNCHANGED dirKind
                 /\ FileReturn(c, DestDirError(raised), Cause(raised), DestDirMessage(raised))
    /\ UNCHANGED <<fsFiles, fsContent, lockVars>>

\* shutil: a destination that is a directory stands for the entry of the
\* source's name inside it.
RealDest(src, dst) == IF Kind(dst) = "dir" THEN Child(dst, src.name) ELSE dst

\* shutil.copy2(source, destination): the exception it raises.
Copy2Raises(src, dst, fault) ==
    First(FaultRaises(fault),
        IF src = RealDest(src, dst) /\ Kind(src) # "absent" THEN "SameFileError"
        ELSE First(OpenReadRaises(src, "none"),
                   OpenWriteRaises(RealDest(src, dst), "none")))

\* shutil.move(source, destination): the exception it raises. os.rename,
\* and for a source that cannot be renamed copy2 and unlink.
MoveRaises(src, dst, fault) ==
    First(FaultRaises(fault),
        IF Kind(dst) = "dir" /\ Kind(RealDest(src, dst)) # "absent" THEN "ShutilError"
        ELSE First(OpenReadRaises(src, "none"),
                   First(ResolveRaises(RealDest(src, dst).parent),
                         IF Kind(RealDest(src, dst)) = "dir"
                         THEN "IsADirectoryError" ELSE "")))

CopyFile(c) ==
    /\ pc[c] = "f_copy"
    /\ \E fault \in FileFaults :
        LET raised == Copy2Raises(path[c], args[c].dest, fault)
            to == RealDest(path[c], args[c].dest)
        IN  IF raised = ""
            THEN /\ fsFiles' = FilesWith(fsFiles, to)
                 /\ dirKind' = DirsWith(dirKind, to)
                 /\ fsContent' = [fsContent EXCEPT ![to] = fsContent[path[c]]]
                 /\ FileReturn(c, "ok", None, "")
            ELSE /\ UNCHANGED fsVars
                 /\ FileReturn(c, CopyError(raised), Cause(raised), CopyMessage(raised, "copying"))
    /\ UNCHANGED lockVars

MoveFile(c) ==
    /\ pc[c] = "f_move"
    /\ \E fault \in FileFaults :
        LET raised == MoveRaises(path[c], args[c].dest, fault)
            to == RealDest(path[c], args[c].dest)
        IN  IF raised = ""
            THEN /\ fsFiles' = FilesWith(FilesWithout(fsFiles, path[c]), to)
                 /\ dirKind' = DirsWith(dirKind, to)
                 /\ fsContent' = [Wiped(fsContent, {path[c]}) EXCEPT
                                      ![to] = fsContent[path[c]]]
                 /\ FileReturn(c, "ok", None, "")
            ELSE /\ UNCHANGED fsVars
                 /\ FileReturn(c, CopyError(raised), Cause(raised), CopyMessage(raised, "moving"))
    /\ UNCHANGED lockVars

\* -------------------------------------------------------- create_directory
StartCreateDir(c) ==
    \E p \in DirPaths, parents \in BOOLEAN :
        FileCall(c, "create_directory", p, Args(NoPath, <<>>, parents, <<>>), "f_mkd")

\* path.mkdir(parents=False) without exist_ok.
MkdirRaisesExisting(x, fault) ==
    First(FaultRaises(fault), First(ResolveRaises(DirParent[x]),
        IF dirKind[x] # "absent" THEN "FileExistsError" ELSE ""))

\* path.mkdir(parents=False, exist_ok=True): the exception it raises.
MkdirRaisesNoParents(x, fault) ==
    First(FaultRaises(fault), First(ResolveRaises(DirParent[x]),
        IF dirKind[x] \notin {"absent", "dir"} THEN "FileExistsError" ELSE ""))

\* _create_directory_sync
CreateDirectory(c) ==
    /\ pc[c] = "f_mkd"
    /\ \E fault \in FileFaults :
        LET x == DirName(path[c])
            raised == IF args[c].flag THEN MkdirParentsRaises(x, fault)
                      ELSE MkdirRaisesNoParents(x, fault)
        IN  IF raised = ""
            THEN /\ dirKind' = IF args[c].flag THEN DirsAfterMkdir(dirKind, x)
                               ELSE [dirKind EXCEPT ![x] = "dir"]
                 /\ FileReturn(c, "ok", None, "")
            ELSE /\ UNCHANGED dirKind
                 /\ FileReturn(c, WriteError(raised), Cause(raised),
                               IF raised = "PermissionError"
                               THEN "Permission denied creating directory"
                               ELSE "Error creating directory")
    /\ UNCHANGED <<fsFiles, fsContent, lockVars>>

\* ---------------------------------------------------------- glob patterns
\* A pattern and a file name are sequences of characters.
NameChars(nm) ==
    CASE nm = "d"     -> <<"d">>
      [] nm = "sub"   -> <<"s", "u", "b">>
      [] nm = "a.txt" -> <<"a", ".", "t", "x", "t">>
      [] OTHER        -> <<>>

\* str.isalpha(): the characters of the model's alphabet that are letters,
\* the ASCII ones and one letter outside ASCII.
Letters == {"a", "b", "d", "s", "t", "u", "x", "C", "U+00E9"}

Patterns == {<<"*">>, <<"*", ".", "t", "x", "t">>, <<"*", "*", "/", "*">>,
             <<"s", "u", "b", "/", "*">>, <<>>, <<".", ".", "/", "*">>,
             <<"/", "*">>, <<"C", ":", "*">>, <<"U+00E9", ":", "*">>}

\* _validate_glob_pattern: the exception it raises.
ValidateGlobPattern(pat) ==
    IF pat = <<>> THEN ""
    ELSE IF \E i \in 1 .. Len(pat) - 1 : pat[i] = "." /\ pat[i + 1] = "."
         THEN "ValueError"
    ELSE IF pat[1] = "/" THEN "ValueError"
    ELSE IF Len(pat) >= 2 /\ pat[2] = ":" /\ pat[1] \in Letters THEN "ValueError"
    ELSE ""

\* The components of a pattern, split at "/".
RECURSIVE SplitPattern(_, _)
SplitPattern(pat, acc) ==
    IF pat = <<>> THEN <<acc>>
    ELSE IF pat[1] = "/" THEN <<acc>> \o SplitPattern(Tail(pat), <<>>)
    ELSE SplitPattern(Tail(pat), Append(acc, pat[1]))

\* fnmatch of one component against one name; "*" matches any run.
RECURSIVE WildMatch(_, _)
WildMatch(pat, nm) ==
    IF pat = <<>> THEN nm = <<>>
    ELSE IF pat[1] = "*"
         THEN WildMatch(Tail(pat), nm) \/ (nm # <<>> /\ WildMatch(pat, Tail(nm)))
         ELSE nm # <<>> /\ nm[1] = pat[1] /\ WildMatch(Tail(pat), Tail(nm))

\* The entries of directory path p.
Children(p) == {q \in Nodes : q.parent = DirName(p) /\ Kind(q) # "absent"}

\* Path.glob: the entries selected from p by the components; "**" stands for
\* p and every directory below it.
RECURSIVE GlobFrom(_, _)
GlobFrom(p, comps) ==
    IF comps = <<>> THEN {p}
    ELSE IF Kind(p) # "dir" THEN {}
    ELSE IF comps[1] = <<"*", "*">>
         THEN UNION {GlobFrom(q, Tail(comps)) :
                        q \in {p} \cup {r \in Below(p) : Kind(r) = "dir"}}
         ELSE UNION {GlobFrom(q, Tail(comps)) :
                        q \in {r \in Children(p) : WildMatch(comps[1], NameChars(r.name))}}

\* Path.glob(pattern): the exception it raises for a pattern it refuses.
GlobRaises(pat) == IF pat = <<>> THEN "ValueError" ELSE ""

\* ----------------------------------------------------------- list_directory
Paths(v) == [kind |-> "paths", value |-> v]

StartList(c) ==
    \E p \in DirPaths \cup {FA}, pat \in Patterns :
        FileCall(c, "list_directory", p, Args(NoPath, <<>>, FALSE, pat), "f_guard")

\* self._validate_glob_pattern(pattern), before the worker thread starts.
ListGuard(c) ==
    /\ pc[c] = "f_guard"
    /\ IF ValidateGlobPattern(args[c].pattern) = ""
       THEN FileGoto(c, "f_isdir")
       ELSE FileReturn(c, ValidateGlobPattern(args[c].pattern), NoRet,
                       "Glob pattern cannot contain")
    /\ UNCHANGED <<fsVars, lockVars>>

\* Path.exists() outside of a try block: os.stat errors other than ENOENT,
\* ENOTDIR, EBADF and ELOOP leave it as they are.
ExistsRaises(fault) == FaultRaises(fault)

\* _list_directory_sync: if not path.exists() / if not path.is_dir()
ListCheck(c) ==
    /\ pc[c] = "f_isdir"
    /\ \E fault \in FileFaults :
        CASE ExistsRaises(fault) # "" ->
               FileReturn(c, ExistsRaises(fault), NoRet, "")
          [] Kind(path[c]) = "absent" ->
               FileReturn(c, "DirectoryNotFoundError", NoRet, "Directory not found")
          [] Kind(path[c]) # "dir" ->
               FileReturn(c, "DirectoryNotFoundError", NoRet, "Path is not a directory")
          [] OTHER -> FileGoto(c, "f_glob")
    /\ UNCHANGED <<fsVars, lockVars>>

\* The except clauses around list(path.glob(pattern)).
ListError(raised) ==
    CASE raised = "PermissionError" -> "FileAccessError"
      [] raised \in OSErrors        -> "FileOperationError"
      [] OTHER                      -> raised

\* return list(path.glob(pattern)): glob skips what it cannot scan (a
\* directory that is gone, EACCES) and passes other errors of scandir on.
ListGlob(c) ==
    /\ pc[c] = "f_glob"
    /\ \E fault \in FileFaults :
        LET raised == First(GlobRaises(args[c].pattern),
                            IF fault = "os" THEN "OSError" ELSE "")
            found == IF fault = "perm" THEN {}
                     ELSE GlobFrom(path[c], SplitPattern(args[c].pattern, <<>>))
        IN  IF raised = ""
            THEN FileReturn(c, "ok", Paths(found), "")
            ELSE FileReturn(c, ListError(raised), Cause(raised),
                            IF raised \in OSErrors THEN "Error listing directory" ELSE "")
    /\ UNCHANGED <<fsVars, lockVars>>

\* --------------------------------------------------------- delete_directory
StartDeleteDir(c) ==
    \E p \in DirPaths, recursive \in BOOLEAN :
        FileCall(c, "delete_directory", p, Args(NoPath, <<>>, recursive, <<>>),
                 "f_dexists")

\* _delete_directory_sync: if not path.exists(): return False
DeleteDirCheck(c) ==
    /\ pc[c] = "f_dexists"
    /\ \E fault \in FileFaults :
        CASE ExistsRaises(fault) # "" ->
               FileReturn(c, ExistsRaises(fault), NoRet, "")
          [] Kind(path[c]) = "absent" -> FileReturn(c, "ok", Bool(FALSE), "")
          [] OTHER -> FileGoto(c, "f_rmdir")
    /\ UNCHANGED <<fsVars, lockVars>>

\* A removal that does not look for entries first.
RemoveDirForce(p, recursive, fault) ==
    First(FaultRaises(fault),
        CASE Kind(p) = "absent" -> "FileNotFoundError"
          [] Kind(p) # "dir"    -> "NotADirectoryError"
          [] OTHER              -> "")

\* shutil.rmtree(path), or any(path.iterdir()) and path.rmdir(): the
\* exception raised.
RemoveDirRaises(p, recursive, fault) ==
    First(FaultRaises(fault),
        CASE Kind(p) = "absent" -> "FileNotFoundError"
          [] Kind(p) # "dir"    -> "NotADirectoryError"
          [] ~recursive /\ Children(p) # {} -> "DirectoryNotEmptyError"
          [] OTHER              -> "")

\* The except clauses of _delete_directory_sync.
DeleteDirError(raised) ==
    CASE raised = "DirectoryNotEmptyError" -> "DirectoryNotEmptyError"
      [] raised = "PermissionError"        -> "FileAccessError"
      [] raised \in OSErrors               -> "FileOperationError"
      [] OTHER                             -> raised

DeleteDirMessage(raised) ==
    CASE raised = "DirectoryNotEmptyError" -> "Directory is not empty"
      [] raised = "PermissionError"        -> "Permission denied deleting directory"
      [] OTHER                             -> "Error deleting directory"

DeleteDirectory(c) ==
    /\ pc[c] = "f_rmdir"
    /\ \E fault \in FileFaults :
        LET raised == RemoveDirRaises(path[c], args[c].flag, fault)
            gone == {path[c]} \cup Below(path[c])
        IN  IF raised = ""
            THEN /\ fsFiles' = fsFiles \ gone
                 /\ dirKind' = [x \in DOMAIN dirKind |->
                                   IF \E q \in gone \cap DirPaths : DirName(q) = x
                                   THEN "absent" ELSE dirKind[x]]
                 /\ fsContent' = Wiped(fsContent, gone)
                 /\ FileReturn(c, "ok", Bool(TRUE), "")
            ELSE /\ UNCHANGED fsVars
                 /\ FileReturn(c, DeleteDirError(raised), Cause(raised), DeleteDirMessage(raised))
    /\ UNCHANGED lockVars

\* ------------------------------------------------------------ get_file_info
\* FileInfo(...): __post_init__ raises ValueError unless exactly one of
\* is_file and is_directory is set.
FileInfoUnchecked(is_file, is_directory) == ""

FileInfoRaises(is_file, is_directory) ==
    IF is_file = is_directory THEN "ValueError" ELSE ""

FileInfo(p, size, is_file, is_directory) ==
    [kind |-> "info", path |-> p, size |-> size,
     is_file |-> is_file, is_directory |-> is_directory]

StartStat(c) ==
    \E p \in Nodes : FileCall(c, "get_file_info", p, NoArgs, "f_sexists")

\* _get_file_info_sync: if not path.exists()
StatCheck(c) ==
    /\ pc[c] = "f_sexists"
    /\ \E fault \in FileFaults :
        CASE ExistsRaises(fault) # "" ->
               FileReturn(c, ExistsRaises(fault), NoRet, "")
          [] Kind(path[c]) = "absent" ->
               FileReturn(c, "AppFileNotFoundError", NoRet, "Path not found")
          [] OTHER -> FileGoto(c, "f_stat")
    /\ UNCHANGED <<fsVars, lockVars>>

\* path.stat(), path.is_file(), path.is_dir() and the FileInfo built of them.
StatRaises(p, fault) ==
    First(FaultRaises(fault),
        First(IF Kind(p) = "absent" THEN "FileNotFoundError" ELSE "",
              FileInfoRaises(Kind(p) = "file", Kind(p) = "dir")))

\* The except clauses of _get_file_info_sync.
StatError(raised) ==
    CASE raised = "PermissionError" -> "FileAccessError"
      [] raised \in OSErrors        -> "FileOperationError"
      [] OTHER                      -> raised

GetFileInfo(c) ==
    /\ pc[c] = "f_stat"
    /\ \E fault \in FileFaults :
        LET raised == StatRaises(path[c], fault)
            p == path[c]
        IN  IF raised = ""
            THEN FileReturn(c, "ok",
                            FileInfo(p, IF Kind(p) = "file" THEN Len(fsContent[p]) ELSE 0,
                                     Kind(p) = "file", Kind(p) = "dir"), "")
            ELSE FileReturn(c, StatError(raised), Cause(raised),
                            CASE raised = "PermissionError" ->
                                     "Permission denied getting file info"
                              [] raised \in OSErrors -> "Error getting file info"
                              [] OTHER -> "")
    /\ UNCHANGED <<fsVars, lockVars>>

\* ------------------------------------------- the file operations together
\* The tree at the start: any consistent one; the files that exist hold an
\* old content.
InitTree ==
    /\ dirKind \in {k \in [FileDirs -> {"absent", "dir", "file", "special"}] :
                       /\ k["d"] # "special"
                       /\ k["d"] # "dir" => k["d/sub"] = "absent"}
    /\ fsFiles \in {f \in SUBSET FilePaths :
                       \A p \in f : dirKind[p.parent] = "dir"}
    /\ fsContent \in {t \in [Nodes -> OldContents \cup {<<>>}] :
                         \A p \in Nodes : (t[p] = <<>>) <=> (Kind(p) \notin {"file"})}

\* Caller "a" runs the file operations one after the other; caller "b"
\* deletes files and directories at the same time.
InitFiles ==
    /\ InitTree
    /\ orphaned = {}
    /\ InitFor({})

Remover == "b"

NextFiles ==
    \/ StartRead("a")
    \/ ReadFile("a")
    \/ StartWrite("a")
    \/ WriteMkdir("a")
    \/ WriteOpen("a")
    \/ WriteData("a")
    \/ \E c \in {"a", Remover} : StartDelete(c)
    \/ \E c \in {"a", Remover} : DeleteFile(c)
    \/ StartCopy("a")
    \/ DestMkdir("a")
    \/ CopyFile("a")
    \/ MoveFile("a")
    \/ StartCreateDir("a")
    \/ CreateDirectory("a")
    \/ StartList("a")
    \/ ListGuard("a")
    \/ ListCheck("a")
    \/ ListGlob("a")
    \/ \E c \in {"a", Remover} : StartDeleteDir(c)
    \/ \E c \in {"a", Remover} : DeleteDirCheck(c)
    \/ \E c \in {"a", Remover} : DeleteDirectory(c)
    \/ StartStat("a")
    \/ StatCheck("a")
    \/ GetFileInfo("a")

SpecFiles == InitFiles /\ [][NextFiles]_vars

\* =====================================================================
\* Serialization (backend/app/data/yaml_handler.py)
\*
\* A text is a sequence of characters; "LF", "CR", "BS" (backslash), "DQ"
\* (double quote) and "U+7530" are single characters, and a key of a
\* mapping is written as one character. Python values carry their type.
Str(s) == [t |-> "str", v |-> s]
IntV(n) == [t |-> "int", v |-> n]
NoneV == [t |-> "none", v |-> 0]
Dt(n) == [t |-> "datetime", v |-> n]
Callable == [t |-> "callable", v |-> 0]
Map(pairs) == [t |-> "map", v |-> pairs]

\* The ISO-8601 text of the datetime n seconds after the epoch: "T" stands
\* for "1970-01-01T00:00:0".
Iso(n) == <<"T", ToString(n)>>

DigitChars == {ToString(d) : d \in 0 .. 9}
DigitVal(ch) == CHOOSE d \in 0 .. 9 : ToString(d) = ch

RECURSIVE Digits(_)
Digits(n) == IF n < 10 THEN <<ToString(n)>>
             ELSE Digits(n \div 10) \o <<ToString(n % 10)>>

RECURSIVE DecValue(_)
DecValue(s) == IF s = <<>> THEN 0
               ELSE 10 * DecValue(SubSeq(s, 1, Len(s) - 1)) + DigitVal(s[Len(s)])

AllDigits(s) == s # <<>> /\ \A i \in 1 .. Len(s) : s[i] \in DigitChars

\* ------------------------------------------------------------- schemas
\* The models of the tests of the handler, and Message (timestamp, body).
Field(key, type, required, default) ==
    [key |-> key, type |-> type, required |-> required, default |-> default]

DefaultName == <<"d", "e", "f">>

Schema(s) ==
    CASE s = "SimpleModel" ->
           <<Field("name", "str", TRUE, NoneV), Field("value", "int", TRUE, NoneV)>>
      [] s = "ModelWithDefaults" ->
           <<Field("name", "str", FALSE, Str(DefaultName)),
             Field("value", "int", FALSE, IntV(0))>>
      [] s = "ModelWithOptional" ->
           <<Field("name", "str", TRUE, NoneV),
             Field("optional_field", "optional_str", FALSE, NoneV)>>
      [] s = "NestedModel" ->
           <<Field("title", "str", TRUE, NoneV), Field("metadata", "any", TRUE, NoneV)>>
      [] s = "Message" ->
           <<Field("timestamp", "datetime", TRUE, NoneV), Field("body", "str", TRUE, NoneV)>>

SchemaNames == {"SimpleModel", "ModelWithDefaults", "ModelWithOptional",
                "NestedModel", "Message"}

YKeys == {"name", "value", "optional_field", "title", "metadata", "timestamp", "body"}

\* A model instance: the values of its fields, in the order of the schema.
Model(s, fields) == [schema |-> s, f |-> fields]
NoModel == Model("", <<>>)

\* ------------------------------------------------ model_dump(mode="json")
\* A value without a JSON form raises PydanticSerializationError.
ModelDumpRaises(m) ==
    IF \E i \in 1 .. Len(m.f) : m.f[i].t = "callable"
    THEN "PydanticSerializationError" ELSE ""

\* A datetime becomes its ISO-8601 text, whatever the type of the field.
JsonValue(v) == IF v.t = "datetime" THEN Str(Iso(v.v)) ELSE v

ModelDump(m) ==
    Map([i \in 1 .. Len(m.f) |-> <<Schema(m.schema)[i].key, JsonValue(m.f[i])>>])

\* ----------------------------------------------------- the YAML resolver
\* The type of a plain scalar: null, int, timestamp or str.
Resolve(s) ==
    IF s = <<>> \/ s = <<"~">> THEN NoneV
    ELSE IF AllDigits(s) THEN IntV(DecValue(s))
    ELSE IF Len(s) = 2 /\ s[1] = "T" /\ s[2] \in DigitChars THEN Dt(DecValue(<<s[2]>>))
    ELSE Str(s)

\* ------------------------------------------------------ the YAML emitter
Breaks == {"LF"}
\* Characters that are not printable are written with an escape.
Special == {"CR"}
StartIndicators == {"#", "'", "DQ", "[", "|", ">", "&", "%"}

IsBlank(s, i) == i > Len(s) \/ i < 1 \/ s[i] = " " \/ s[i] \in Breaks

\* analyze_scalar: the styles a str may be written in.
AllowPlain(s) ==
    /\ s # <<>>
    /\ s[1] \notin StartIndicators
    /\ s[1] # " " /\ s[Len(s)] # " "
    /\ \A i \in 1 .. Len(s) :
          /\ s[i] \notin Breaks \cup Special
          /\ s[i] = ":" => ~IsBlank(s, i + 1)
          /\ s[i] = "-" /\ i = 1 => ~IsBlank(s, i + 1)
          /\ s[i] = "#" /\ i > 1 => s[i - 1] # " "

AllowSingle(s) ==
    \A i \in 1 .. Len(s) :
        /\ s[i] \notin Special
        /\ s[i] = " " /\ i < Len(s) => s[i + 1] \notin Breaks
        /\ s[i] \in Breaks /\ i < Len(s) => s[i + 1] # " "

\* A style chosen without asking the resolver.
ChooseStyleUnresolved(s) ==
    IF AllowPlain(s) THEN "plain"
    ELSE IF AllowSingle(s) THEN "single" ELSE "double"

\* choose_scalar_style: plain when the resolver reads the text as a str again.
ChooseStyle(s) ==
    IF AllowPlain(s) /\ Resolve(s).t = "str" THEN "plain"
    ELSE IF AllowSingle(s) THEN "single" ELSE "double"

\* write_single_quoted: a quote is doubled; a run of line breaks gets one
\* more break and the indentation of the continuation line.
RECURSIVE WriteSingle(_, _)
WriteSingle(s, i) ==
    IF i > Len(s) THEN <<>>
    ELSE IF s[i] = "'" THEN <<"'", "'">> \o WriteSingle(s, i + 1)
    ELSE IF s[i] \in Breaks
         THEN (IF i = 1 \/ s[i - 1] \notin Breaks THEN <<"LF">> ELSE <<>>)
              \o <<"LF">>
              \o (IF i = Len(s) \/ s[i + 1] \notin Breaks THEN <<" ">> ELSE <<>>)
              \o WriteSingle(s, i + 1)
    ELSE <<s[i]>> \o WriteSingle(s, i + 1)

\* write_double_quoted: escapes; Unicode is written as it is (allow_unicode).
RECURSIVE WriteDouble(_, _)
WriteDouble(s, i) ==
    IF i > Len(s) THEN <<>>
    ELSE (CASE s[i] = "DQ" -> <<"BS", "DQ">>
            [] s[i] = "BS" -> <<"BS", "BS">>
            [] s[i] = "LF" -> <<"BS", "n">>
            [] s[i] = "CR" -> <<"BS", "r">>
            [] OTHER       -> <<s[i]>>) \o WriteDouble(s, i + 1)

EmitScalar(val) ==
    CASE val.t = "int" -> Digits(val.v)
      [] val.t = "str" ->
           (CASE ChooseStyle(val.v) = "plain"  -> val.v
              [] ChooseStyle(val.v) = "single" -> <<"'">> \o WriteSingle(val.v, 1) \o <<"'">>
              [] OTHER -> <<"DQ">> \o WriteDouble(val.v, 1) \o <<"DQ">>)

\* One "key: value" line of a block mapping; None is written as "key:".
EmitLine(pair) ==
    <<pair[1], ":">>
    \o (IF pair[2].t = "none" THEN <<>> ELSE <<" ">> \o EmitScalar(pair[2]))
    \o <<"LF">>

RECURSIVE EmitLines(_, _)
EmitLines(pairs, i) ==
    IF i > Len(pairs) THEN <<>> ELSE EmitLine(pairs[i]) \o EmitLines(pairs, i + 1)

\* self._yaml.dump(data, stream)
YamlDump(tree) == EmitLines(tree.v, 1)

\* ------------------------------------------------------- the YAML parser
\* The result of scanning a scalar: the value and the position after it, or
\* an error (ok = FALSE).
Scanned(val, next) == [ok |-> TRUE, val |-> val, next |-> next]
ScanError == [ok |-> FALSE, val |-> NoneV, next |-> 0]

\* The position after the run of character ch that starts at i.
RECURSIVE SkipRun(_, _, _)
SkipRun(text, i, chs) ==
    IF i <= Len(text) /\ text[i] \in chs THEN SkipRun(text, i + 1, chs) ELSE i

Repeat(ch, n) == [k \in 1 .. n |-> ch]

\* A run of m line breaks inside a quoted scalar: one break folds into a
\* space, m breaks are m - 1 line feeds.
Folded(m) == IF m = 1 THEN <<" ">> ELSE Repeat("LF", m - 1)

\* A single-quoted scalar, from the position after the opening quote.
RECURSIVE ScanSingle(_, _, _)
ScanSingle(text, i, acc) ==
    IF i > Len(text) THEN ScanError
    ELSE IF text[i] = "'"
         THEN IF i < Len(text) /\ text[i + 1] = "'"
              THEN ScanSingle(text, i + 2, Append(acc, "'"))
              ELSE Scanned(Str(acc), i + 1)
    ELSE IF text[i] = "LF"
         THEN LET j == SkipRun(text, i, {"LF"})
              IN  ScanSingle(text, SkipRun(text, j, {" "}), acc \o Folded(j - i))
    ELSE ScanSingle(text, i + 1, Append(acc, text[i]))

Escapes == [n |-> "LF", r |-> "CR", DQ |-> "DQ", BS |-> "BS"]

\* A double-quoted scalar, from the position after the opening quote.
RECURSIVE ScanDouble(_, _, _)
ScanDouble(text, i, acc) ==
    IF i > Len(text) THEN ScanError
    ELSE IF text[i] = "DQ" THEN Scanned(Str(acc), i + 1)
    ELSE IF text[i] = "BS"
         THEN IF i < Len(text) /\ text[i + 1] \in DOMAIN Escapes
              THEN ScanDouble(text, i + 2, Append(acc, Escapes[text[i + 1]]))
              ELSE ScanError
    ELSE IF text[i] = "LF"
         THEN LET j == SkipRun(text, i, {"LF"})
              IN  ScanDouble(text, SkipRun(text, j, {" "}), acc \o Folded(j - i))
    ELSE ScanDouble(text, i + 1, Append(acc, text[i]))

\* The end of the line that holds position i.
RECURSIVE LineEnd(_, _)
LineEnd(text, i) ==
    IF i > Len(text) \/ text[i] = "LF" THEN i ELSE LineEnd(text, i + 1)

\* The text without the spaces at its end.
RECURSIVE Stripped(_)
Stripped(s) ==
    IF s # <<>> /\ s[Len(s)] = " " THEN Stripped(SubSeq(s, 1, Len(s) - 1)) ELSE s

\* The text of a plain scalar up to the end of its line: " #" starts a
\* comment, ": " is a mapping where none is allowed, "[" opens a flow
\* sequence that this line does not close.
PlainText(text, i) ==
    LET e == LineEnd(text, i)
        hash == {k \in i .. e - 1 : text[k] = "#" /\ (k = i \/ text[k - 1] = " ")}
        stop == IF hash = {} THEN e ELSE CHOOSE k \in hash : \A h \in hash : k <= h
        s == Stripped(SubSeq(text, i, stop - 1))
    IN  IF \E k \in 1 .. Len(s) : s[k] = ":" /\ (k = Len(s) \/ s[k + 1] = " ")
        THEN ScanError
        ELSE IF s # <<>> /\ s[1] \in {"[", "|", ">", "&", "%"} THEN ScanError
        ELSE Scanned(s, e)

\* A plain scalar that ends with its line, read by the resolver.
ScanPlain(text, i) ==
    IF PlainText(text, i).ok
    THEN Scanned(Resolve(PlainText(text, i).val), PlainText(text, i).next)
    ELSE ScanError

\* A plain scalar that is the whole document: its lines are folded.
RECURSIVE PlainDocument(_, _, _)
PlainDocument(text, i, acc) ==
    IF i > Len(text) THEN Scanned(Resolve(acc), i)
    ELSE IF text[i] \in {"LF", " "} THEN PlainDocument(text, i + 1, acc)
    ELSE LET line == PlainText(text, i)
         IN  IF ~line.ok THEN ScanError
             ELSE PlainDocument(text, line.next,
                                IF acc = <<>> \/ line.val = <<>> THEN acc \o line.val
                                ELSE acc \o <<" ">> \o line.val)

\* The scalar that starts at position i.
ScanScalar(text, i) ==
    IF i > Len(text) THEN Scanned(NoneV, i)
    ELSE IF text[i] = "'" THEN ScanSingle(text, i + 1, <<>>)
    ELSE IF text[i] = "DQ" THEN ScanDouble(text, i + 1, <<>>)
    ELSE ScanPlain(text, i)

\* After a quoted scalar only spaces or a comment may follow on the line.
RestIsBlank(text, i) ==
    LET j == SkipRun(text, i, {" "})
    IN  j > Len(text) \/ text[j] = "LF" \/ (j > i /\ text[j] = "#")

HasKey(pairs, k) == \E i \in 1 .. Len(pairs) : pairs[i][1] = k

\* The lines of a block mapping, from position i; a key given twice, a line
\* that is indented (it holds a mapping where none is allowed; a plain
\* scalar that goes on in the next line is not among the inputs) or one that
\* does not start with a key is an error.
RECURSIVE ParseLines(_, _, _)
ParseLines(text, i, acc) ==
    IF i > Len(text) THEN Scanned(Map(acc), i)
    ELSE IF text[i] = "LF" THEN ParseLines(text, i + 1, acc)
    ELSE IF text[i] = "#" THEN ParseLines(text, LineEnd(text, i), acc)
    ELSE IF text[i] \notin YKeys \/ i = Len(text) \/ text[i + 1] # ":" THEN ScanError
    ELSE IF HasKey(acc, text[i]) THEN ScanError
    ELSE IF i + 2 > Len(text) \/ text[i + 2] = "LF"
         THEN ParseLines(text, i + 2, Append(acc, <<text[i], NoneV>>))
    ELSE IF text[i + 2] # " " THEN ScanError
    ELSE LET sc == ScanScalar(text, SkipRun(text, i + 2, {" "}))
         IN  IF ~sc.ok THEN ScanError
             ELSE IF ~RestIsBlank(text, sc.next) THEN ScanError
             ELSE ParseLines(text, LineEnd(text, sc.next),
                             Append(acc, <<text[i], sc.val>>))

\* The text holds no node: only line breaks, spaces and comments.
RECURSIVE EmptyDocument(_, _)
EmptyDocument(text, i) ==
    IF i > Len(text) THEN TRUE
    ELSE IF text[i] \in {"LF", " "} THEN EmptyDocument(text, i + 1)
    ELSE IF text[i] = "#" THEN EmptyDocument(text, LineEnd(text, i))
    ELSE FALSE

\* self._yaml.load(stream): None for a document without a node, the scalar
\* of a document that is one scalar, the mapping of a block mapping; ok is
\* FALSE for a YAMLError.
YamlLoad(text) ==
    IF EmptyDocument(text, 1) THEN Scanned(NoneV, 1)
    ELSE IF \E i \in 1 .. Len(text) : text[i] \in YKeys
         THEN ParseLines(text, 1, <<>>)
    ELSE IF text[SkipRun(text, 1, {"LF", " "})] \in {"'", "DQ"}
         THEN LET sc == ScanScalar(text, SkipRun(text, 1, {"LF", " "}))
              IN  IF sc.ok /\ ~EmptyDocument(text, sc.next) THEN ScanError ELSE sc
    ELSE PlainDocument(text, 1, <<>>)

\* ------------------------------------------------------- model_validate
\* The value of a field after validation in lax mode, or the type of the
\* error: str takes only a str, int also a str of digits, datetime also an
\* ISO text and a number of seconds, Any takes every value as it is.
Coerce(type, v) ==
    CASE type = "str" -> IF v.t = "str" THEN v ELSE Str(<<"string_type">>)
      [] type = "optional_str" -> IF v.t \in {"str", "none"} THEN v ELSE Str(<<"string_type">>)
      [] type = "int" ->
           IF v.t = "int" THEN v
           ELSE IF v.t = "str" /\ AllDigits(v.v) THEN IntV(DecValue(v.v))
           ELSE Str(<<"int_type">>)
      [] type = "datetime" ->
           IF v.t = "datetime" THEN v
           ELSE IF v.t = "int" THEN Dt(v.v)
           ELSE IF v.t = "str" /\ Resolve(v.v).t = "datetime" THEN Resolve(v.v)
           ELSE Str(<<"datetime_type">>)
      [] OTHER -> v

CoerceFails(type, v) ==
    CASE type = "str" -> v.t # "str"
      [] type = "optional_str" -> v.t \notin {"str", "none"}
      [] type = "int" -> ~(v.t = "int" \/ (v.t = "str" /\ AllDigits(v.v)))
      [] type = "datetime" ->
           ~(v.t \in {"datetime", "int"} \/ (v.t = "str" /\ Resolve(v.v).t = "datetime"))
      [] OTHER -> FALSE

\* The value given for key k in a mapping.
Given(pairs, k) == pairs[CHOOSE i \in 1 .. Len(pairs) : pairs[i][1] = k][2]

\* A report that stops at the first field in error.
ValidationErrorsFirst(data, s) ==
    IF data.t # "map" THEN {<<"", "model_type">>}
    ELSE LET bad == {k \in 1 .. Len(Schema(s)) :
                        \/ Schema(s)[k].required /\ ~HasKey(data.v, Schema(s)[k].key)
                        \/ /\ HasKey(data.v, Schema(s)[k].key)
                           /\ CoerceFails(Schema(s)[k].type,
                                          Given(data.v, Schema(s)[k].key))}
         IN  IF bad = {} THEN {}
             ELSE {<<Schema(s)[CHOOSE k \in bad : \A j \in bad : k <= j].key, "first">>}

\* e.errors(): one entry for every field that is missing or of a wrong type;
\* data that is no mapping is one error of the model.
ValidationErrors(data, s) ==
    IF data.t # "map" THEN {<<"", "model_type">>}
    ELSE {<<Schema(s)[i].key, "missing">> :
              i \in {k \in 1 .. Len(Schema(s)) :
                        Schema(s)[k].required /\ ~HasKey(data.v, Schema(s)[k].key)}}
         \cup {<<Schema(s)[i].key, "type">> :
              i \in {k \in 1 .. Len(Schema(s)) :
                        /\ HasKey(data.v, Schema(s)[k].key)
                        /\ CoerceFails(Schema(s)[k].type,
                                       Given(data.v, Schema(s)[k].key))}}

\* The instance that model_validate builds: a field that is not given takes
\* its default, a key that is no field is ignored.
Validated(data, s) ==
    Model(s, [i \in 1 .. Len(Schema(s)) |->
                 IF HasKey(data.v, Schema(s)[i].key)
                 THEN Coerce(Schema(s)[i].type, Given(data.v, Schema(s)[i].key))
                 ELSE Schema(s)[i].default])

\* -------------------------------------------- serialize and deserialize
\* What a call of the handler ends with.
Outcome(res, value, msg) == [result |-> res, ret |-> value, message |-> msg]

YamlModel(m) == [kind |-> "model", value |-> m]

\* The exception that deserialize caught, with details["validation_errors"].
SchemaCause(errors) ==
    [kind |-> "cause", value |-> "PydanticValidationError", validation_errors |-> errors]

\* YAMLHandler.serialize
Serialize(m) ==
    IF ModelDumpRaises(m) # ""
    THEN Outcome("YAMLParseError", Cause(ModelDumpRaises(m)),
                 "Failed to serialize: model contains non-serializable data")
    ELSE Outcome("ok", Content(YamlDump(ModelDump(m))), "")

\* A document without a node is validated as it is, as None.
DataOfNone(doc) == doc

\* if data is None: data = {}
DataOf(doc) == IF doc.t = "none" THEN Map(<<>>) ELSE doc

\* YAMLHandler.deserialize
Deserialize(text, s) ==
    LET loaded == YamlLoad(text)
        data == DataOf(loaded.val)
    IN  IF ~loaded.ok
        THEN Outcome("YAMLParseError", Cause("YAMLError"), "Invalid YAML syntax")
        ELSE IF ValidationErrors(data, s) # {}
        THEN Outcome("YAMLParseError", SchemaCause(ValidationErrors(data, s)),
                     "YAML data does not match schema")
        ELSE Outcome("ok", YamlModel(Validated(data, s)), "")

\* ------------------------------------------- the inputs of the handler
MaxStrLen == 2

\* The characters of the str values: letters, a digit, the characters that
\* YAML gives a meaning, the line ends and a character outside of ASCII.
YChars == {"a", "1", ":", " ", "#", "~", "-", "'", "DQ", "BS", "LF", "CR", "U+7530"}

RECURSIVE StringsOf(_)
StringsOf(n) ==
    IF n = 0 THEN {<<>>}
    ELSE StringsOf(n - 1) \cup {Append(s, ch) : s \in StringsOf(n - 1), ch \in YChars}

\* Text bodies of several paragraphs, "key: value" inside a value, a
\* comment sign, quotes around a word and a text in ISO-8601 form.
LongStrings == {<<"a", "LF", "LF", "a">>, <<"a", ":", " ", "a">>,
                <<"a", " ", "#", "a">>, <<"'", "a", "'">>, Iso(1)}

Strings == StringsOf(MaxStrLen) \cup LongStrings
FewStrings == {<<"a">>, <<"~">>, <<"1">>, <<"a", "CR", "LF">>, <<"U+7530", "LF">>}
Ints == {IntV(1), IntV(10)}

\* The instances of a schema: every field holds a value of its type.
Models ==
    {Model("SimpleModel", <<Str(s), n>>) : s \in Strings, n \in Ints}
    \cup {Model("ModelWithDefaults", <<Str(s), n>>) :
              s \in FewStrings \cup {DefaultName}, n \in Ints \cup {IntV(0)}}
    \cup {Model("ModelWithOptional", <<Str(s), o>>) :
              s \in FewStrings, o \in {Str(x) : x \in FewStrings} \cup {NoneV}}
    \cup {Model("NestedModel", <<Str(s), v>>) :
              s \in FewStrings,
              v \in {Str(<<"a">>), Str(<<"~">>), IntV(1), NoneV, Dt(1), Callable}}
    \cup {Model("Message", <<Dt(n), Str(s)>>) : n \in 0 .. 1, s \in FewStrings}

\* The instances that are saved to a file.
SaveModels ==
    {Model("SimpleModel", <<Str(s), IntV(1)>>) :
         s \in {<<"a">>, <<"a", "CR", "LF">>, <<"U+7530", "LF">>, <<"1">>}}
    \cup {Model("ModelWithDefaults", <<Str(DefaultName), IntV(0)>>),
          Model("NestedModel", <<Str(<<"a">>), Dt(1)>>),
          Model("NestedModel", <<Str(<<"a">>), Callable>>)}

\* The texts given to deserialize: documents without a node, documents of a
\* model, documents with fields missing or of a wrong type, a scalar, and
\* malformed ones (a flow sequence and a quote left open, a line indented
\* too far, a key given twice).
YamlTexts ==
    {<<>>, <<"LF">>, <<"~">>, <<"#", "a", "LF">>,
     <<"name", ":", " ", "a", "LF", "value", ":", " ", "1", "LF">>,
     <<"name", ":", " ", "1", "LF", "value", ":", " ", "a", "LF">>,
     <<"value", ":", " ", "1", "LF">>,
     <<"name", ":", " ", "'", "1", "'", "LF", "value", ":", " ", "'", "1", "'", "LF">>,
     <<"a">>,
     <<"name", ":", " ", "[", "a">>,
     <<"name", ":", " ", "'", "a", "LF">>,
     <<"name", ":", " ", "a", "LF", " ", " ", "value", ":", " ", "a">>,
     <<"name", ":", " ", "a", "LF", "name", ":", " ", "a", "LF">>}

\* What the file holds at the start: a document, an empty file, bytes that
\* are no UTF-8.
YamlOld == {<<"name", ":", " ", "a", "LF", "value", ":", " ", "1", "LF">>,
            <<>>, <<"xFF">>}

\* The file that save writes and load reads.
YamlPath == FA

YArgs(content, m, s) ==
    [dest |-> NoPath, content |-> content, flag |-> TRUE, pattern |-> <<>>,
     schema |-> s, model |-> m]

\* The call ends as the outcome says.
YamlReturn(c, outcome) == FileReturn(c, outcome.result, outcome.ret, outcome.message)

\* ------------------------------------------- serialize and deserialize
\* yaml_handler.serialize(model)
SerializeModel(c) ==
    /\ pc[c] = "y_dump"
    /\ YamlReturn(c, Serialize(args[c].model))
    /\ UNCHANGED <<fsVars, lockVars>>

\* yaml_handler.deserialize(yaml_str, model_class)
DeserializeText(c) ==
    /\ pc[c] = "y_parse"
    /\ YamlReturn(c, Deserialize(args[c].content, args[c].schema))
    /\ UNCHANGED <<fsVars, lockVars>>

\* Mutant: save starts with write_file and has not serialized the instance.
StartSaveWritesFirst(c) ==
    \E m \in SaveModels :
        FileCall(c, "save", YamlPath, YArgs(<<>>, m, m.schema), "f_mkdir")

\* ----------------------------------------------------------------- save
StartSave(c) ==
    \E m \in SaveModels :
        FileCall(c, "save", YamlPath, YArgs(<<>>, m, m.schema), "y_ser")

\* A save that goes on only while no marker of a lock is on the path.
SaveWaitsForLock(c) ==
    /\ pc[c] = "y_ser"
    /\ LockFile(path[c]) \notin fsFiles
    /\ IF Serialize(args[c].model).result = "ok"
       THEN /\ pc' = [pc EXCEPT ![c] = "f_mkdir"]
            /\ args' = [args EXCEPT ![c].content = Serialize(args[c].model).ret.value]
            /\ UNCHANGED <<op, path, result, ret, message>>
       ELSE YamlReturn(c, Serialize(args[c].model))
    /\ UNCHANGED <<fsVars, lockVars>>

\* yaml_str = self.serialize(model); write_file(path, yaml_str) follows
\* (WriteMkdir, WriteOpen, WriteData) and ends the call.
SaveSerialize(c) ==
    /\ pc[c] = "y_ser"
    /\ IF Serialize(args[c].model).result = "ok"
       THEN /\ pc' = [pc EXCEPT ![c] = "f_mkdir"]
            /\ args' = [args EXCEPT ![c].content = Serialize(args[c].model).ret.value]
            /\ UNCHANGED <<op, path, result, ret, message>>
       ELSE YamlReturn(c, Serialize(args[c].model))
    /\ UNCHANGED <<fsVars, lockVars>>

\* ----------------------------------------------------------------- load
LoadSchemas == {"SimpleModel", "ModelWithDefaults", "NestedModel"}

StartLoad(c) ==
    \E s \in LoadSchemas :
        FileCall(c, "load", YamlPath, YArgs(<<>>, NoModel, s), "y_read")

\* yaml_str = await self._file_handler.read_file(path): the text read, or
\* the error of read_file, which leaves load.
LoadRead(c) ==
    /\ pc[c] = "y_read"
    /\ \E fault \in FileFaults :
        LET opened == OpenReadRaises(path[c], fault)
            raised == First(opened, IF opened = "" THEN DecodeRaises(fsContent[path[c]])
                                    ELSE "")
        IN  IF raised = ""
            THEN /\ pc' = [pc EXCEPT ![c] = "y_deser"]
                 /\ args' = [args EXCEPT ![c].content = Decode(fsContent[path[c]])]
                 /\ UNCHANGED <<op, path, result, ret, message>>
            ELSE FileReturn(c, ReadError(raised), Cause(raised), ReadMessage(raised))
    /\ UNCHANGED <<fsVars, lockVars>>

\* return self.deserialize(yaml_str, model_class)
LoadDeserialize(c) ==
    /\ pc[c] = "y_deser"
    /\ YamlReturn(c, Deserialize(args[c].content, args[c].schema))
    /\ UNCHANGED <<fsVars, lockVars>>

\* ------------------------------------------------- the handler together
\* acquire_lock(path, timeout=0) on the file of save and load.
StartAcquireYaml(c) == Enter(c, "acquire", YamlPath, 0)

\* The callers at the start; caller "a" is at position pa of operation oa
\* with the arguments aa.
InitCallers(pa, oa, aa) ==
    /\ orphaned = {}
    /\ now = 0
    /\ registry = [h \in Handlers |-> [p \in LockPaths \cup {YamlPath} |-> NoLock]]
    /\ handler = [c \in Callers |-> "h1"]
    /\ pc = [c \in Callers |-> IF c = "a" THEN pa ELSE "idle"]
    /\ op = [c \in Callers |-> IF c = "a" THEN oa ELSE "none"]
    /\ path = [c \in Callers |-> NoPath]
    /\ timeout = [c \in Callers |-> 0]
    /\ start_time = [c \in Callers |-> 0]
    /\ wake = [c \in Callers |-> 0]
    /\ lock = [c \in Callers |-> NoLock]
    /\ relCalls = [c \in Callers |-> 0]
    /\ exc = [c \in Callers |-> FALSE]
    /\ cur = [c \in Callers |-> <<>>]
    /\ result = [c \in Callers |-> "none"]
    /\ details = [c \in Callers |-> NoDetails]
    /\ attempts = [c \in Callers |-> 0]
    /\ logged = [c \in Callers |-> FALSE]
    /\ staleRelease = FALSE
    /\ args = [c \in Callers |-> IF c = "a" THEN aa ELSE NoArgs]
    /\ ret = [c \in Callers |-> NoRet]
    /\ message = [c \in Callers |-> ""]
    /\ InitBucket

\* The directory of the file is missing or exists; the file is missing or
\* holds an old content.
InitYamlTree ==
    /\ dirKind \in {[x \in FileDirs |-> "absent"],
                    [x \in FileDirs |-> IF x = "d" THEN "dir" ELSE "absent"]}
    /\ fsFiles \in {f \in SUBSET {YamlPath} : \A p \in f : dirKind[p.parent] = "dir"}
    /\ fsContent \in {t \in [Nodes -> YamlOld] :
                         \A p \in Nodes : p \notin fsFiles => t[p] = <<>>}

\* Caller "a" is idle, or it has called serialize with an instance or
\* deserialize with a text and a schema (the call is the input); it saves
\* and loads afterwards.
InitSerde ==
    /\ InitYamlTree
    /\ \/ InitCallers("idle", "none", NoArgs)
       \/ \E m \in Models :
             InitCallers("y_dump", "serialize", YArgs(<<>>, m, m.schema))
       \/ \E text \in YamlTexts, s \in SchemaNames :
             InitCallers("y_parse", "deserialize", YArgs(text, NoModel, s))

NextSerde ==
    \/ SerializeModel("a")
    \/ DeserializeText("a")
    \/ StartSave("a")
    \/ SaveSerialize("a")
    \/ WriteMkdir("a")
    \/ WriteOpen("a")
    \/ WriteData("a")
    \/ StartLoad("a")
    \/ LoadRead("a")
    \/ LoadDeserialize("a")

SpecSerde == InitSerde /\ [][NextSerde]_vars

\* Caller "a" saves and loads; caller "b" takes and releases the lock on the
\* same file through the same FileHandler.
InitYaml == InitYamlTree /\ InitCallers("idle", "none", NoArgs)

NextYaml ==
    \/ StartSave("a")
    \/ SaveSerialize("a")
    \/ WriteMkdir("a")
    \/ WriteOpen("a")
    \/ WriteData("a")
    \/ StartLoad("a")
    \/ LoadRead("a")
    \/ LoadDeserialize("a")
    \/ StartAcquireYaml("b")
    \/ TryAcquire("b")
    \/ AcquireRegister("b")
    \/ AcquireCheck("b")
    \/ StartRelease("b")
    \/ ReleaseSync("b")
    \/ ReleaseDeregister("b")

SpecYaml == InitYaml /\ [][NextYaml]_vars

\* =====================================================================
\* Repository (backend/app/data/repository_base.py and the implementation
\* of its abstract get and delete, ConcreteRepository of
\* backend/tests/unit/data/test_repository_base.py)
\*
\* self.data_dir and self.model_class of the repository.
DataDir == "d"
ModelClass == "SimpleModel"
EntityIds == {"a"}

\* _get_entity_path(id): data_dir / (id + extension); the files of the
\* tree end in ".txt".
GetEntityPath(id) == MkPath(DataDir, id \o ".txt")

\* get(id): path = self._get_entity_path(id)
StartGet(c) ==
    \E id \in EntityIds :
        FileCall(c, "get", GetEntityPath(id), YArgs(<<>>, NoModel, ModelClass), "r_exists")

\* delete(id): path = self._get_entity_path(id)
StartRepoDelete(c) ==
    \E id \in EntityIds :
        FileCall(c, "delete", GetEntityPath(id), YArgs(<<>>, NoModel, ModelClass), "r_exists")

\* _file_exists_sync: path.exists() and path.is_file()
FileExists(p) == ResolveRaises(p.parent) = "" /\ Kind(p) = "file"

\* The step that goes on to load or to delete_file whatever is at the path.
RepoExistsSkipped(c) ==
    /\ pc[c] = "r_exists"
    /\ \E fault \in FileFaults :
        IF ExistsRaises(fault) # ""
        THEN FileReturn(c, ExistsRaises(fault), NoRet, "")
        ELSE FileGoto(c, IF op[c] = "get" THEN "y_read" ELSE "r_unlink")
    /\ UNCHANGED <<fsVars, lockVars>>

\* if not await self._file_exists(path): return None (get), return False
\* (delete); otherwise load or delete_file follows.
RepoExists(c) ==
    /\ pc[c] = "r_exists"
    /\ \E fault \in FileFaults :
        CASE ExistsRaises(fault) # "" ->
               FileReturn(c, ExistsRaises(fault), NoRet, "")
          [] ExistsRaises(fault) = "" /\ ~FileExists(path[c]) ->
               FileReturn(c, "ok", IF op[c] = "get" THEN None ELSE Bool(FALSE), "")
          [] OTHER ->
               FileGoto(c, IF op[c] = "get" THEN "y_read" ELSE "r_unlink")
    /\ UNCHANGED <<fsVars, lockVars>>

\* await self.yaml_handler._file_handler.delete_file(path); return True:
\* what delete_file returns is not looked at.
RepoDelete(c) ==
    /\ pc[c] = "r_unlink"
    /\ \E fault \in FileFaults :
        LET raised == UnlinkRaises(path[c], fault)
        IN  CASE raised = "" ->
                   /\ fsFiles' = FilesWithout(fsFiles, path[c])
                   /\ dirKind' = DirsWithout(dirKind, path[c])
                   /\ fsContent' = Wiped(fsContent, {path[c]})
                   /\ FileReturn(c, "ok", Bool(TRUE), "")
              [] raised = "FileNotFoundError" ->
                   /\ UNCHANGED fsVars
                   /\ FileReturn(c, "ok", Bool(TRUE), "")
              [] OTHER ->
                   /\ UNCHANGED fsVars
                   /\ FileReturn(c, DeleteError(raised), Cause(raised),
                                 IF raised = "PermissionError"
                                 THEN "Permission denied deleting file"
                                 ELSE "Error deleting file")
    /\ UNCHANGED lockVars

\* Caller "a" gets and deletes the entity and saves instances to its file
\* (save of the repository is yaml_handler.save on the path of the entity);
\* caller "b" deletes files at the same time.
InitRepo == InitYamlTree /\ InitCallers("idle", "none", NoArgs)

NextRepo ==
    \/ StartGet("a")
    \/ StartRepoDelete("a")
    \/ RepoExists("a")
    \/ LoadRead("a")
    \/ LoadDeserialize("a")
    \/ RepoDelete("a")
    \/ StartSave("a")
    \/ SaveSerialize("a")
    \/ WriteMkdir("a")
    \/ WriteOpen("a")
    \/ WriteData("a")
    \/ StartDelete(Remover)
    \/ DeleteFile(Remover)

SpecRepo == InitRepo /\ [][NextRepo]_vars

\* ------------------------------------------------ TokenBucketRateLimiter
\* acquire(tokens) runs on one event loop: what lies between two awaits is
\* one step. The awaits are the wait for _lock, when it is taken, and
\* asyncio.sleep(wait_time).

\* Mutant: the refill is not limited to the capacity.
RefilledUncapped == tokens + since_update * Rate

\* self.tokens after the refill of the loop body:
\* min(self.capacity, self.tokens + elapsed * self.rate)
Refilled == Min(Capacity, tokens + since_update * Rate)

\* self.tokens when the while loop is left or the sleep begins: the loop
\* body, and with it the refill, runs only while self.tokens < tokens.
TokensFor(n) == IF tokens >= n THEN tokens ELSE Refilled

\* `async with self._lock` is left.
BucketLeft(c) ==
    /\ pc' = [pc EXCEPT ![c] = "idle"]
    /\ result' = [result EXCEPT ![c] = "granted"]
    /\ is_locked' = FALSE

\* The body of `async with self._lock` of caller c, who asks for n tokens,
\* from the test of the while loop to the next await or to the return:
\* self.tokens -= tokens; self.last_update = monotonic(), or, with too few
\* tokens after the refill, self.last_update = now and
\* await asyncio.sleep((tokens - self.tokens) / self.rate) with _lock held.
BucketLoop(c, n) ==
    /\ since_update' = 0
    /\ IF TokensFor(n) >= n
       THEN /\ tokens' = TokensFor(n) - n
            /\ wait_time' = 0
            /\ BucketLeft(c)
       ELSE /\ tokens' = TokensFor(n)
            /\ wait_time' = ((n - TokensFor(n)) + Rate - 1) \div Rate
            /\ is_locked' = TRUE
            /\ pc' = [pc EXCEPT ![c] = "rl_sleep"]
            /\ result' = [result EXCEPT ![c] = "none"]

\* Mutant: _lock is taken at once whoever holds it.
LockIsFreeAlways == TRUE

\* asyncio.Lock.acquire takes the lock at once when it is not held and
\* nobody waits for it.
LockIsFree == ~is_locked /\ waiters = <<>>

\* acquire(tokens) is called: `async with self._lock`, and the loop when the
\* lock is free; otherwise the caller joins the waiters of the lock.
LimiterAcquire(c) ==
    /\ pc[c] = "idle"
    /\ \E n \in Wants :
        /\ want' = [want EXCEPT ![c] = n]
        /\ IF LockIsFree
           THEN BucketLoop(c, n) /\ UNCHANGED waiters
           ELSE /\ waiters' = Append(waiters, c)
                /\ pc' = [pc EXCEPT ![c] = "rl_queued"]
                /\ result' = [result EXCEPT ![c] = "none"]
                /\ UNCHANGED <<tokens, since_update, is_locked, wait_time>>
    /\ UNCHANGED <<now, fsVars, registry, handler, callVars, wake, lock,
                   relCalls, exc, cur, details, logged, staleRelease, orphaned,
                   fileVars>>

\* asyncio.Lock.release woke the first waiter: it takes the lock and runs
\* the loop.
LimiterGrant(c) ==
    /\ pc[c] = "rl_queued"
    /\ ~is_locked /\ waiters # <<>> /\ Head(waiters) = c
    /\ waiters' = Tail(waiters)
    /\ BucketLoop(c, want[c])
    /\ UNCHANGED <<now, fsVars, registry, handler, callVars, wake, lock,
                   relCalls, exc, cur, details, logged, staleRelease, orphaned,
                   fileVars, want>>

\* asyncio.sleep(wait_time) is over: the while loop tests again.
LimiterWake(c) ==
    /\ pc[c] = "rl_sleep"
    /\ wait_time = 0
    /\ BucketLoop(c, want[c])
    /\ UNCHANGED <<now, fsVars, registry, handler, callVars, wake, lock,
                   relCalls, exc, cur, details, logged, staleRelease, orphaned,
                   fileVars, want, waiters>>

\* monotonic() advances by the time in which one token is added.
LimiterTick ==
    /\ since_update' = Min(FillTime, since_update + 1)
    /\ wait_time' = IF wait_time > 0 THEN wait_time - 1 ELSE 0
    /\ UNCHANGED <<now, fsVars, registry, handler, pc, callVars, wake, lock,
                   relCalls, exc, cur, result, details, logged, staleRelease,
                   orphaned, fileVars, tokens, is_locked, waiters, want>>

InitLimiter ==
    /\ dirKind = [d \in Dirs |-> "dir"]
    /\ fsFiles = {} /\ orphaned = {}
    /\ fsContent = [p \in TargetPaths |-> <<>>]
    /\ InitFor({})

NextLimiter ==
    \/ LimiterTick
    \/ \E c \in Callers : LimiterAcquire(c)
    \/ \E c \in Callers : LimiterGrant(c)
    \/ \E c \in Callers : LimiterWake(c)

SpecLimiter == InitLimiter /\ [][NextLimiter]_vars

\* Time advances, and the event loop runs a caller whose await is over.
SpecLimiterFair ==
    /\ InitLimiter
    /\ [][NextLimiter]_vars
    /\ WF_vars(LimiterTick)
    /\ \A c \in Callers : WF_vars(LimiterGrant(c) \/ LimiterWake(c))

\* ================================================================ claims
\* c has acquired a FileLock on p and has not called release_lock on it.
Holds(c, p) == lock[c] # NoLock /\ lock[c].path = p /\ relCalls[c] = 0

\* c holds the lock on p, or has created the marker and is about to return.
Owns(c, p) == Holds(c, p) \/ (pc[c] = "got" /\ path[c] = p)

Holders(p) == {c \in Callers : Holds(c, p)}

\* C1: as long as every FileLock is released by its holder only (release_lock
\* is never called on a FileLock that was released before), at most one caller
\* owns the lock of a path at any time, whatever handlers the callers use; an
\* attempt made while another caller holds the lock is never the acquiring one.
C1_MutualExclusion ==
    ~staleRelease =>
        \A p \in TargetPaths : Cardinality({c \in Callers : Owns(c, p)}) <= 1

\* C1 witness: one caller holds the lock while a caller of another handler
\* has failed with FileLockError on the same path.
C1_Witness ==
    \E c, d \in Callers, p \in TargetPaths :
        /\ ~staleRelease
        /\ Holds(c, p)
        /\ handler[c] # handler[d]
        /\ result[d] = "FileLockError"
        /\ details[d].path = p
        /\ details[d].lock_file_exists

\* c is inside the body of its locked() scope on p.
InCritical(c, p) == pc[c] \in {"read", "open", "write"} /\ path[c] = p

Range(seq) == {seq[i] : i \in 1 .. Len(seq)}

\* No write_file is between its open and its close.
NoWriteInProgress == \A c \in Callers : pc[c] # "write"

\* C2: when every caller runs locked(path) around read_file and write_file
\* (content + own value), two bodies never overlap, and whenever no write is
\* in progress the file holds the value of every caller that has left its
\* scope normally: no update is lost.
C2_NoLostUpdate ==
    \A p \in TargetPaths :
        /\ Cardinality({c \in Callers : InCritical(c, p)}) <= 1
        /\ NoWriteInProgress =>
               \A c \in Callers : result[c] = "left" => c \in Range(fsContent[p])

\* C2 witness: all callers have completed and the file holds every value.
C2_Witness ==
    \E p \in TargetPaths :
        /\ \A c \in Callers : result[c] = "left"
        /\ Callers \subseteq Range(fsContent[p])
        /\ Len(fsContent[p]) = Cardinality(Callers) + 1

\* The outcome with which a locked() scope is left.
ScopeResult(raised) == IF raised THEN "BodyError" ELSE "left"

\* c is between the creation of its marker of p and the run of its deletion.
InScope(c, p) ==
    path[c] = p /\ pc[c] \in {"got", "body", "read", "open", "write", "rel_sync"}

\* c is between its registration for p and its deregistration.
Registered(c, p) ==
    path[c] = p /\ pc[c] \in {"body", "read", "open", "write", "rel_sync", "rel_dereg"}

\* C3: locked() releases on every exit path of its body. A marker that is on
\* disk (and was not orphaned by a crash or a failed deletion, the case of C8)
\* belongs to a scope that has not run its release yet, and a registry entry to
\* a scope that has not been left: once the scope is left, by return or by an
\* exception, its marker and its entry are gone. Every exit of the body runs
\* release_lock on the lock of the scope, the scope ends with the body's
\* exception if there is one, and an attempt on an absent marker that raises
\* no OS error acquires.
C3_ScopeRelease ==
    /\ [](\A p \in TargetPaths :
            /\ LockFile(p) \in fsFiles \ orphaned => \E c \in Callers : InScope(c, p)
            /\ \A h \in Handlers :
                   registry[h][p] # NoLock =>
                       \E c \in Callers : handler[c] = h /\ Registered(c, p))
    /\ [][\A c \in Callers :
            /\ pc[c] = "body" /\ pc'[c] # "body" =>
                   pc'[c] = "rel_sync" /\ lock'[c] = lock[c]
            /\ pc[c] = "rel_dereg" /\ pc'[c] # "rel_dereg" =>
                   /\ pc'[c] = "idle"
                   /\ registry'[handler[c]][path[c]] = NoLock
                   /\ result'[c] = ScopeResult(exc[c])
            /\ /\ pc[c] = "try" /\ pc'[c] \notin {"try", "idle"}
               /\ LockFile(path[c]) \notin fsFiles
               /\ dirKind[path[c].parent] # "file"
               => pc'[c] = "got"]_vars

\* C3 witness: a scope was left by an exception, its marker is gone and the
\* other caller has acquired the same path since.
C3_Witness ==
    \E c, d \in Callers, p \in TargetPaths :
        /\ c # d
        /\ result[c] = "BodyError"
        /\ pc[d] = "body" /\ path[d] = p
        /\ registry[handler[d]][p] = lock[d]

\* c has created the marker of p and its deletion of it has not run yet.
HasMarker(c, p) ==
    \/ pc[c] = "got" /\ path[c] = p
    \/ Holds(c, p)
    \/ lock[c] # NoLock /\ lock[c].path = p /\ relCalls[c] = 1 /\ pc[c] = "rel_sync"

\* The step of caller c that ends the attempt it is making, without an error.
AttemptReturns(c) == pc[c] = "try" /\ pc'[c] \notin {"try", "idle"}

\* C4: a path alternates between unlocked and locked. While every FileLock is
\* released once, the marker is on disk whenever a caller has created it and
\* not yet deleted it, and a marker on disk (not orphaned by a failed deletion
\* or a crash) has exactly such a caller: after the only holder's release the
\* path is unlocked. An attempt on an unlocked path, whose directory can be
\* prepared and which meets no OS error, acquires at once, whatever the
\* timeout, and the call returns the FileLock and registers it.
C4_Alternation ==
    /\ [](~staleRelease =>
            \A p \in TargetPaths :
                /\ (\E c \in Callers : HasMarker(c, p)) => LockFile(p) \in fsFiles
                /\ LockFile(p) \in fsFiles \ orphaned =>
                       \E c \in Callers : HasMarker(c, p))
    /\ [][\A c \in Callers :
            /\ AttemptReturns(c) /\ LockFile(path[c]) \notin fsFiles
                   /\ dirKind[path[c].parent] # "file"
               => pc'[c] = "got" /\ LockFile(path[c]) \in fsFiles'
            /\ pc[c] = "got" /\ pc'[c] # "got" =>
                   /\ pc'[c] = "idle"
                   /\ result'[c] = "acquired"
                   /\ lock'[c].path = path[c]
                   /\ registry'[handler[c]][path[c]] = lock'[c]]_vars

\* C4 witness: d acquired the path and released it; c, with a timeout that is
\* not positive, has then created the marker on its first attempt.
C4_Witness ==
    \E c, d \in Callers :
        /\ c # d
        /\ ~staleRelease
        /\ result[d] = "released" /\ relCalls[d] = 1 /\ lock[d].path = path[c]
        /\ pc[c] = "got" /\ attempts[c] = 1 /\ timeout[c] <= 0

\* c is inside acquire_lock.
InAcquire(c) == pc[c] \in {"try", "got", "check", "sleep"}

\* C5: with a timeout that is zero or negative acquire_lock makes exactly one
\* attempt and never sleeps. If the attempt finds the marker, the call fails
\* with FileLockError, whose details carry the path and the timeout as given;
\* if the marker is absent (and the attempt meets no OS error) it succeeds.
C5_NonWaiting ==
    /\ [](\A c \in Callers :
            InAcquire(c) /\ timeout[c] <= 0 =>
                /\ pc[c] # "sleep"
                /\ attempts[c] = (IF pc[c] = "try" THEN 0 ELSE 1))
    /\ [][\A c \in Callers :
            timeout[c] <= 0 =>
                /\ AttemptReturns(c) /\ dirKind[path[c].parent] # "file" =>
                       pc'[c] = (IF LockFile(path[c]) \in fsFiles THEN "check" ELSE "got")
                /\ pc[c] = "check" /\ pc'[c] # "check" =>
                       /\ pc'[c] = "idle"
                       /\ result'[c] = "FileLockError"
                       /\ details'[c].path = path[c]
                       /\ details'[c].timeout = timeout[c]]_vars

\* C5 witness: a call with a negative timeout has failed on a held path with
\* the negative timeout in its details, while the other caller holds the lock
\* it acquired at a later time than the start.
C5_Witness ==
    \E c, d \in Callers :
        /\ result[c] = "FileLockError"
        /\ details[c].timeout < 0
        /\ details[c].lock_file_exists
        /\ Holds(d, details[c].path)
        /\ lock[d].acquired_at > 0

\* C6 (as stated): an attempt that does not create the marker for any reason
\* other than the marker being there already (it was absent when the attempt
\* ran) ends acquire_lock on that attempt with FileAccessError or
\* FileOperationError: it is not retried and does not become a FileLockError.
C6_FaultsFailAtOnce ==
    [][\A c \in Callers :
         /\ pc[c] = "try" /\ pc'[c] # "try"
         /\ LockFile(path[c]) \notin fsFiles
         /\ LockFile(path[c]) \notin fsFiles'
         => /\ pc'[c] = "idle"
            /\ result'[c] \in {"FileAccessError", "FileOperationError"}]_vars

\* C7: release_lock on a FileLock that was released before never raises, and
\* leaves the state as the first call left it: the first release (when the
\* deletion does not fail) leaves the marker absent and the registry without
\* an entry, and on that state the second changes neither.
C7_ReleaseIdempotent ==
    [][\A c \in Callers :
         /\ pc[c] = "rel_sync" /\ pc'[c] # "rel_sync" =>
                /\ pc'[c] = "rel_dereg"
                /\ ~logged'[c] => LockFile(lock[c].path) \notin fsFiles'
                /\ relCalls[c] = 2 /\ LockFile(lock[c].path) \notin fsFiles =>
                       fsFiles' = fsFiles
         /\ pc[c] = "rel_dereg" /\ pc'[c] # "rel_dereg" /\ op[c] = "release" =>
                /\ pc'[c] = "idle"
                /\ result'[c] = "released"
                /\ registry'[handler[c]][lock[c].path] = NoLock
                /\ relCalls[c] = 2 /\ registry[handler[c]][lock[c].path] = NoLock =>
                       registry' = registry]_vars

\* C7 witness: c has completed its second release of a FileLock while no other
\* caller has touched the path; marker and registry entry are absent.
C7_Witness ==
    \E c \in Callers :
        /\ relCalls[c] = 2
        /\ result[c] = "released"
        /\ pc[c] = "idle"
        /\ \A d \in Callers \ {c} : lock[d] = NoLock /\ result[d] = "none"
        /\ LockFile(lock[c].path) \notin fsFiles
        /\ registry[handler[c]][lock[c].path] = NoLock

\* The errors acquire_lock can end with.
AcquireErrors == {"FileLockError", "FileAccessError", "FileOperationError"}

\* C8: when the deletion of the marker fails, release_lock does not raise: it
\* logs, leaves the marker on disk and still removes the registry entry. While
\* that marker stays, no attempt acquires the path, a check of the deadline
\* that is due ends in FileLockError reporting the marker, and every acquire
\* that ends on it ends with an error.
C8_FailedDeletion ==
    [][/\ \A c \in Callers :
            /\ pc[c] = "rel_sync" /\ logged'[c] =>
                   /\ pc'[c] = "rel_dereg"
                   /\ fsFiles' = fsFiles
            /\ pc[c] = "rel_dereg" /\ logged[c] /\ pc'[c] # "rel_dereg" =>
                   /\ pc'[c] = "idle"
                   /\ result'[c] = ScopeResult(FALSE) \/ result'[c] = "released"
                   /\ registry'[handler[c]][lock[c].path] = NoLock
                   /\ UNCHANGED fsFiles
       /\ \A c \in Callers :
            LockFile(path[c]) \in orphaned /\ LockFile(path[c]) \in orphaned' =>
                /\ pc[c] = "try" => pc'[c] # "got"
                /\ pc[c] \in {"try", "check"} /\ pc'[c] = "idle" =>
                       result'[c] \in AcquireErrors
                /\ pc[c] = "check" /\ pc'[c] = "idle" =>
                       result'[c] = "FileLockError" /\ details'[c].lock_file_exists]_vars

\* C8 witness: c's release failed to delete the marker and has completed, the
\* registry has no entry, and d has since timed out on the marker left behind.
C8_Witness ==
    \E c, d \in Callers :
        /\ c # d
        /\ ~staleRelease
        /\ result[c] = "released" /\ relCalls[c] = 1
        /\ LockFile(lock[c].path) \in orphaned
        /\ registry[handler[c]][lock[c].path] = NoLock
        /\ result[d] = "FileLockError"
        /\ details[d].path = lock[c].path
        /\ details[d].lock_file_exists
        /\ lock[d] = NoLock

\* No FileLock was ever handed out: no caller has acquired anything.
NeverAcquired == \A c \in Callers : lock[c] = NoLock /\ pc[c] # "got"

\* C9: there is no recovery from a stale lock. No step of acquire_lock removes
\* a file, an attempt that finds the marker never acquires, and a marker that
\* no release removes (it was there before any caller acquired) stays on disk
\* for good while no caller ever gets the lock: every acquire that gives up
\* reports the marker in its FileLockError.
C9_NoStaleRecovery ==
    /\ [](\A p \in TargetPaths :
            LockFile(p) \in orphaned /\ ~staleRelease /\ NeverAcquired =>
                /\ LockFile(p) \in fsFiles
                /\ \A c \in Callers :
                       result[c] = "FileLockError" /\ details[c].path = p =>
                           details[c].lock_file_exists)
    /\ [][/\ \A c \in Callers :
               /\ InAcquire(c) /\ pc'[c] # pc[c] => fsFiles \subseteq fsFiles'
               /\ pc[c] = "try" /\ LockFile(path[c]) \in fsFiles => pc'[c] # "got"
          /\ (\E p \in TargetPaths : LockFile(p) \in orphaned) /\ NeverAcquired =>
                 NeverAcquired' /\ orphaned' = orphaned]_vars

\* C9 witness: on a marker left by a crash, one call with the largest timeout
\* and one with a timeout that is not positive have both failed with
\* FileLockError, and the marker is still there.
C9_Witness ==
    \E c, d \in Callers, p \in TargetPaths :
        /\ NeverAcquired
        /\ LockFile(p) \in orphaned /\ LockFile(p) \in fsFiles
        /\ result[c] = "FileLockError" /\ details[c].path = p
        /\ details[c].timeout = MaxTimeout
        /\ result[d] = "FileLockError" /\ details[d].path = p
        /\ details[d].timeout <= 0

\* C10: the outcome of an attempt depends on the marker on disk only, never on
\* the registry: an attempt that returns acquires exactly when the marker is
\* absent (the directory being preparable), with or without a registry entry
\* for the path in the caller's handler.
C10_MarkerDecides ==
    [][\A c \in Callers :
         AttemptReturns(c) /\ dirKind[path[c].parent] # "file" =>
             (pc'[c] = "got" <=> LockFile(path[c]) \notin fsFiles)]_vars

\* C10 witness: c has acquired while the registry of its handler still had an
\* entry for the path (the previous holder's deregistration is pending).
C10_Witness ==
    \E c \in Callers :
        /\ pc[c] = "got"
        /\ registry[handler[c]][path[c]] # NoLock

\* The step caller c takes next when it is inside a mutex.
StepInMutex(c) == RegisterLocked(c) \/ DeregisterLocked(c)

\* C11: the mutex of a registry is held only while an entry is inserted or
\* deleted. No caller inside the mutex is suspended at an await (creation or
\* deletion of the marker, the poll sleep), at most one caller is inside the
\* mutex of a handler, and a caller inside it can always take its step and
\* leaves the mutex with it: the mutex is not held across a retry and nobody
\* waits for it forever.
C11_MutexScope ==
    /\ [](/\ \A c \in Callers : pc[c] \in AwaitPoints => pc[c] \notin MutexSpan
          /\ \A h \in Handlers : Cardinality(MutexHolders(h)) <= 1
          /\ \A c \in Callers : pc[c] \in MutexSpan => ENABLED StepInMutex(c))
    /\ [][\A c \in Callers :
            pc[c] \in MutexSpan /\ pc'[c] # pc[c] => pc'[c] = "idle"]_vars

\* C11 witness: one caller is inside the mutex to register its lock while the
\* other caller of the same handler is suspended in its poll sleep.
C11_Witness ==
    \E c, d \in Callers :
        /\ handler[c] = handler[d]
        /\ pc[c] = "reg"
        /\ pc[d] = "sleep"

\* <parent>/.<name>.lock, written out.
MarkerOf(p) == [parent |-> p.parent, name |-> "." \o p.name \o ".lock"]

\* C12: for every target path the marker that acquire creates is
\* <parent>/.<name>.lock, in the directory of the target, and it is the
\* lock_file of the FileLock returned; an attempt creates no other file, a
\* release removes that file (unless the deletion fails) and no other, and
\* the target files are never touched.
C12_MarkerPath ==
    /\ [](LockPaths \subseteq fsFiles)
    /\ [][\A c \in Callers :
            /\ pc[c] = "try" /\ pc'[c] # "try" =>
                   /\ fsFiles' \ fsFiles \subseteq {MarkerOf(path[c])}
                   /\ fsFiles \subseteq fsFiles'
                   /\ pc'[c] = "got" => MarkerOf(path[c]) \in fsFiles'
            /\ pc[c] = "got" /\ pc'[c] # "got" =>
                   /\ lock'[c].path = path[c]
                   /\ LockFile(lock'[c].path) = MarkerOf(path[c])
                   /\ UNCHANGED fsFiles
            /\ pc[c] = "rel_sync" /\ pc'[c] # "rel_sync" =>
                   /\ fsFiles \ fsFiles' \subseteq {MarkerOf(lock[c].path)}
                   /\ fsFiles' \subseteq fsFiles
                   /\ ~logged'[c] => MarkerOf(lock[c].path) \notin fsFiles']_vars

\* C12 witness: c has released its lock on one path while d holds a lock on
\* another path of the same directory: d's marker and all targets are the
\* files on disk.
C12_Witness ==
    \E c, d \in Callers :
        /\ c # d
        /\ result[c] = "released" /\ relCalls[c] = 1
        /\ Holds(d, lock[d].path)
        /\ lock[d].path # lock[c].path
        /\ lock[d].path.parent = lock[c].path.parent
        /\ fsFiles = LockPaths \cup {MarkerOf(lock[d].path)}

\* Caller c ends the operation `name` with this step, which leaves `at`.
Ends(c, name, at) == op[c] = name /\ pc[c] = at /\ pc'[c] = "idle"

\* What is at path p after the step.
KindAfter(p) ==
    IF p \in DirPaths THEN dirKind'[DirName(p)]
    ELSE IF p \in fsFiles' THEN "file" ELSE "absent"

\* What read_file (text) or read_bytes returns for the bytes of a file.
ReadBack(bytes, text) == IF text THEN Decode(bytes) ELSE bytes

\* C13: when write_text(path, c) or write_bytes(path, c) completes (and the
\* path was not removed meanwhile), a read of the path returns exactly c,
\* whatever the file held before, and every parent directory of path exists.
C13_WriteThenRead ==
    [][\A c \in Callers :
         /\ pc[c] = "f_data" /\ pc'[c] = "idle"
         /\ result'[c] = "ok" /\ path[c] \in fsFiles'
         => /\ (args[c].flag => DecodeRaises(fsContent'[path[c]]) = "")
            /\ ReadBack(fsContent'[path[c]], args[c].flag) = args[c].content
            /\ \A x \in UpTo(path[c].parent) : dirKind'[x] = "dir"]_vars

\* The OS reports the path as missing (ENOENT): no entry of that name, in a
\* directory that exists or below a directory that is missing itself.
Missing(p) ==
    /\ Kind(p) = "absent"
    /\ ResolveRaises(p.parent) \in {"", "FileNotFoundError"}

\* The step of c ends its operation with an error whose cause is a failure
\* of the environment (EACCES, or EIO and the like), not the state of the
\* tree.
EnvFailed(c) ==
    \/ result'[c] = "FileAccessError" /\ ret'[c] = Cause("PermissionError")
    \/ result'[c] = "FileOperationError" /\ ret'[c] = Cause("OSError")

C15_NoCheckThenAct ==
    [][\A c \in Callers :
         Missing(path[c]) /\ ~EnvFailed(c) =>
             /\ Ends(c, "read_text", "f_read") =>
                    result'[c] = "AppFileNotFoundError"
             /\ Ends(c, "delete_file", "f_unlink") =>
                    result'[c] = "ok" /\ ret'[c] = Bool(FALSE)
             /\ Ends(c, "delete_directory", "f_rmdir") =>
                    result'[c] = "ok" /\ ret'[c] = Bool(FALSE)
             /\ Ends(c, "list_directory", "f_glob") =>
                    result'[c] = "DirectoryNotFoundError"
             /\ Ends(c, "get_file_info", "f_stat") =>
                    result'[c] = "AppFileNotFoundError"]_vars

\* The error classes of core/exceptions.py that the file and lock
\* operations raise.
TypedErrors == {"FileOperationError", "AppFileNotFoundError", "FileAccessError",
                "FileLockError", "DirectoryNotFoundError", "DirectoryNotEmptyError"}

\* The ValueError that list_directory documents for a pattern.
InvalidPattern(c) == IF op[c] = "list_directory" THEN {"ValueError"} ELSE {}

\* C16: a file operation ends with a value or with exactly one typed error
\* (for a pattern, the ValueError of the guard), never with a raw exception,
\* whatever the input and the state of the tree; a permission failure is
\* reported as AccessDenied.
C16_TypedErrorsOnly ==
    [][\A c \in Callers :
         pc[c] # "idle" /\ pc'[c] = "idle" =>
             /\ result'[c] \in {"ok"} \cup TypedErrors \cup InvalidPattern(c)
             /\ ret'[c] = Cause("PermissionError") =>
                    result'[c] = "FileAccessError"]_vars

\* How a failure of opening or writing the file itself looks to the caller of
\* write_file or write_bytes: class and message of the error.
WriteFailures == {<<WriteError(raised), WriteMessage(raised)>> : raised \in OSErrors}

\* C17: an error that write_text or write_bytes raises because the parent
\* directories cannot be created differs, in class or message, from every
\* error it raises when writing the file itself fails.
C17_DirectoryFailureDistinct ==
    [][\A c \in Callers :
         /\ op[c] \in {"write_text", "write_bytes"}
         /\ pc[c] = "f_mkdir" /\ pc'[c] = "idle"
         => <<result'[c], message'[c]>> \notin WriteFailures]_vars

\* The bytes are the UTF-8 encoding of some text.
ValidUtf8(bytes) == \A i \in 1 .. Len(bytes) : bytes[i] # "xFF"

\* c ends a read_text of an existing regular file whose bytes are no UTF-8,
\* and the environment lets the read through.
ReadsUndecodable(c) ==
    /\ Ends(c, "read_text", "f_read")
    /\ Kind(path[c]) = "file"
    /\ ~ValidUtf8(fsContent[path[c]])
    /\ ~EnvFailed(c)

\* C18 as stated: such a read fails with an error of a kind of its own,
\* which is none of NotFound, AccessDenied and IOFault, and returns nothing.
C18_DecodeErrorKind ==
    [][\A c \in Callers :
         ReadsUndecodable(c) =>
             result'[c] \notin {"ok", "AppFileNotFoundError", "FileAccessError",
                                "FileOperationError"}]_vars

\* C18 as amended: such a read fails with FileOperationError, the class of
\* IOFault, and returns nothing: it differs from NotFound and AccessDenied
\* in class, and from the other I/O faults of read_text in its message and
\* its cause (UnicodeDecodeError) only; read_bytes of the same file returns
\* the bytes.
C18_DecodeFails ==
    [][\A c \in Callers :
         /\ ReadsUndecodable(c) =>
              /\ result'[c] = "FileOperationError"
              /\ ret'[c] = Cause("UnicodeDecodeError")
              /\ message'[c] # ""
              /\ \A raised \in OSErrors : message'[c] # ReadMessage(raised)
         /\ Ends(c, "read_bytes", "f_read") /\ Kind(path[c]) = "file"
              /\ ~EnvFailed(c) =>
              result'[c] = "ok" /\ ret'[c] = Content(fsContent[path[c]])]_vars

\* C18 witness: the last read of caller a failed on bytes that are no UTF-8.
C18_Witness ==
    /\ pc["a"] = "idle"
    /\ result["a"] = "FileOperationError"
    /\ ret["a"] = Cause("UnicodeDecodeError")

\* c ends a copy_file or a move_file with this step.
EndsCopy(c) == Ends(c, "copy_file", "f_copy") \/ Ends(c, "move_file", "f_move")

\* The directories of x and above all exist after the step.
ParentsExist(x) == \A y \in UpTo(x) : dirKind'[y] = "dir"

MoveRefused(c) ==
    /\ op[c] = "move_file"
    /\ Kind(args[c].dest) = "dir"
    /\ Kind(RealDest(path[c], args[c].dest)) # "absent"

C20_ImmediateChildren ==
    [][\A c \in Callers :
         Ends(c, "list_directory", "f_glob") /\ result'[c] = "ok" =>
             /\ ValidateGlobPattern(args[c].pattern) = ""
             /\ ret'[c].value \subseteq Children(path[c])
             /\ args[c].pattern = <<"*">> =>
                    ret'[c].value \in {Children(path[c]), {}}]_vars

\* ---------------------------------------------------------------------
\* The pattern guard

\* The letters A to Z and a to z of the model's alphabet.
AsciiLetters == {"a", "b", "d", "s", "t", "u", "x", "C"}

\* A pattern that contains "..", starts with "/" or begins with a
\* drive-letter prefix [A-Za-z]: .
UnsafePattern(pat) ==
    \/ \E i \in 1 .. Len(pat) - 1 : pat[i] = "." /\ pat[i + 1] = "."
    \/ Len(pat) >= 1 /\ pat[1] = "/"
    \/ Len(pat) >= 2 /\ pat[1] \in AsciiLetters /\ pat[2] = ":"

\* The step of list_directory that runs the guard.
GuardStep(c) == op[c] = "list_directory" /\ pc[c] = "f_guard" /\ pc'[c] # "f_guard"

\* C21: the guard rejects a pattern with ValueError exactly when the pattern
\* contains "..", starts with "/" or begins with [A-Za-z]: ; any other
\* pattern, the empty one too, goes on to the directory check; the guard
\* runs before any step on the tree, also when the directory is absent.
C21_GuardIff ==
    [][\A c \in Callers :
          GuardStep(c) =>
              /\ UNCHANGED fsVars
              /\ IF UnsafePattern(args[c].pattern)
                 THEN pc'[c] = "idle" /\ result'[c] = "ValueError"
                 ELSE pc'[c] = "f_isdir"]_vars

\* ---------------------------------------------------------------------
\* Directories and stat

\* The step of c ends with an exception of the OS that no except clause
\* caught (Path.exists() outside of a try block).
RawFault(c) == result'[c] \in {"PermissionError", "OSError"}

\* C22: delete_directory returns false and changes nothing when it finds the
\* path absent; on a directory, recursive = false with entries in it fails
\* with DirectoryNotEmptyError and leaves the directory and its contents as
\* they were; otherwise (recursive = true, or an empty directory) the
\* directory and everything below it are removed, nothing else is, and the
\* call returns true. Failures of the system calls themselves are left out.
C22_DeleteDirectory ==
    [][\A c \in Callers :
         /\ Ends(c, "delete_directory", "f_dexists")
               /\ Kind(path[c]) = "absent" /\ ~RawFault(c) =>
                 result'[c] = "ok" /\ ret'[c] = Bool(FALSE) /\ UNCHANGED fsVars
         /\ Ends(c, "delete_directory", "f_rmdir")
               /\ Kind(path[c]) = "dir" /\ ~EnvFailed(c) =>
                 IF ~args[c].flag /\ Children(path[c]) # {}
                 THEN /\ result'[c] = "DirectoryNotEmptyError"
                      /\ UNCHANGED fsVars
                 ELSE /\ result'[c] = "ok" /\ ret'[c] = Bool(TRUE)
                      /\ \A q \in {path[c]} \cup Below(path[c]) :
                             KindAfter(q) = "absent"
                      /\ \A q \in Nodes \ ({path[c]} \cup Below(path[c])) :
                             KindAfter(q) = Kind(q) /\ fsContent'[q] = fsContent[q]]_vars

\* C22 witness: a call of delete_directory without recursive was refused on
\* d, which still holds its entries.
C22_Witness ==
    /\ pc["a"] = "idle" /\ result["a"] = "DirectoryNotEmptyError"
    /\ message["a"] = "Directory is not empty"
    /\ Kind(PD) = "dir" /\ Kind(PS) = "dir" /\ Kind(FA) = "file"

\* C23: a FileInfo has exactly one of is_file and is_directory set: building
\* one with both or with neither raises ValueError, and every FileInfo that a
\* call returns has exactly one. get_file_info of a regular file or of a
\* directory returns the FileInfo of that path, with the size of the file
\* and with size 0 for a directory; get_file_info of a path it finds absent
\* fails with AppFileNotFoundError. Failures of the system calls themselves
\* are left out.
C23_FileInfo ==
    [][/\ \A f, d \in BOOLEAN : (FileInfoRaises(f, d) = "ValueError") <=> (f = d)
       /\ \A c \in Callers :
            /\ ret'[c].kind = "info" => ret'[c].is_file # ret'[c].is_directory
            /\ Ends(c, "get_file_info", "f_stat")
                  /\ Kind(path[c]) \in {"file", "dir"} /\ ~EnvFailed(c) =>
                    /\ result'[c] = "ok" /\ ret'[c].kind = "info"
                    /\ ret'[c].path = path[c]
                    /\ ret'[c].is_file = (Kind(path[c]) = "file")
                    /\ ret'[c].is_directory = (Kind(path[c]) = "dir")
                    /\ ret'[c].size = IF Kind(path[c]) = "dir" THEN 0
                                      ELSE Len(fsContent[path[c]])
            /\ Ends(c, "get_file_info", "f_sexists")
                  /\ Kind(path[c]) = "absent" /\ ~RawFault(c) =>
                    result'[c] = "AppFileNotFoundError" /\ ret'[c].kind # "info"]_vars

\* C23 witness: get_file_info returned the FileInfo of the directory d/sub.
C23_Witness ==
    /\ pc["a"] = "idle" /\ result["a"] = "ok" /\ ret["a"].kind = "info"
    /\ ret["a"].path = PS /\ ret["a"].is_directory /\ ~ret["a"].is_file
    /\ ret["a"].size = 0

\* C24: create_directory on a directory that exists succeeds and changes
\* nothing, and a call that succeeds leaves a directory at the path, so a
\* second call is of that kind; with parents = false and an ancestor missing
\* the call fails with FileOperationError and creates no directory. Failures
\* of the system calls themselves are left out.
C24_CreateDirectory ==
    [][\A c \in Callers :
         Ends(c, "create_directory", "f_mkd") /\ ~EnvFailed(c) =>
             /\ Kind(path[c]) = "dir" =>
                    result'[c] = "ok" /\ ret'[c] = None /\ UNCHANGED fsVars
             /\ result'[c] = "ok" => KindAfter(path[c]) = "dir"
             /\ ~args[c].flag
                   /\ ResolveRaises(DirParent[DirName(path[c])]) = "FileNotFoundError" =>
                    result'[c] = "FileOperationError" /\ UNCHANGED fsVars]_vars

\* C24 witness: create_directory failed for the lack of an ancestor, and d is
\* still missing.
C24_Witness ==
    /\ pc["a"] = "idle" /\ result["a"] = "FileOperationError"
    /\ message["a"] = "Error creating directory"
    /\ ret["a"] = Cause("FileNotFoundError")
    /\ dirKind["d"] = "absent" /\ dirKind["d/sub"] = "absent"

\* ---------------------------------------------------------------------
\* Serialization

\* What load returns for the bytes of a file that can be read.
Loaded(bytes, s) == Deserialize(Decode(bytes), s)

\* The instance m itself is returned.
Returns(outcome, m) == outcome = Outcome("ok", YamlModel(m), "")

\* The step ends a call of serialize that returned a text.
Serialized(c) == Ends(c, "serialize", "y_dump") /\ result'[c] = "ok"

\* The step ends a call of save, and the file written is in place and holds
\* UTF-8.
Saved(c) ==
    /\ Ends(c, "save", "f_data") /\ result'[c] = "ok"
    /\ path[c] \in fsFiles' /\ DecodeRaises(fsContent'[path[c]]) = ""

\* C25 as stated: for every instance r of a schema that serialize accepts,
\* deserialize(serialize(r), schema) is equal to r field by field, and load
\* returns r from the file that save(r) wrote.
C25_RoundTripAll ==
    [][\A c \in Callers :
         /\ Serialized(c) =>
                Returns(Deserialize(ret'[c].value, args[c].schema), args[c].model)
         /\ Saved(c) =>
                Returns(Loaded(fsContent'[path[c]], args[c].schema), args[c].model)]_vars

\* The values of the fields typed Any are values that JSON has: no
\* datetime among them.
JsonNative(m) ==
    \A i \in 1 .. Len(m.f) :
        Schema(m.schema)[i].type = "any" => m.f[i].t \in {"str", "int", "none"}

\* C25: for every instance r whose fields of type Any hold only values that
\* JSON has, deserialize(serialize(r), schema) is equal to r field by field
\* (texts of several lines, the characters that YAML gives a meaning, line
\* ends, quotes, Unicode), and load returns r from the file that save(r)
\* wrote.
C25_RoundTrip ==
    [][\A c \in Callers :
         /\ Serialized(c) /\ JsonNative(args[c].model) =>
                Returns(Deserialize(ret'[c].value, args[c].schema), args[c].model)
         /\ Saved(c) /\ JsonNative(args[c].model) =>
                Returns(Loaded(fsContent'[path[c]], args[c].schema), args[c].model)]_vars

\* C25 witness: save wrote the instance whose name ends with "\r\n", and the
\* file holds the name in double quotes with both characters escaped.
C25_Witness ==
    /\ pc["a"] = "idle" /\ result["a"] = "ok" /\ ret["a"] = None
    /\ YamlPath \in fsFiles
    /\ fsContent[YamlPath] =
          <<"name", ":", " ", "DQ", "a", "BS", "r", "BS", "n", "DQ", "LF",
            "value", ":", " ", "1", "LF">>

\* The step ends deserialize, called directly or by load, on the text t for
\* the schema s.
Deserialized(c) ==
    \/ Ends(c, "deserialize", "y_parse")
    \/ Ends(c, "load", "y_deser")

\* The fields of schema s that the data leaves out though they are required,
\* or gives with a value of a wrong type.
Offending(data, s) ==
    {k \in 1 .. Len(Schema(s)) :
        IF HasKey(data.v, Schema(s)[k].key)
        THEN CoerceFails(Schema(s)[k].type, Given(data.v, Schema(s)[k].key))
        ELSE Schema(s)[k].required}

\* The text is well-formed YAML that holds a mapping which does not satisfy
\* the schema.
Unfit(text, s) ==
    /\ YamlLoad(text).ok /\ YamlLoad(text).val.t = "map"
    /\ Offending(YamlLoad(text).val, s) # {}

\* C26 as stated: deserialize raises the parse error for malformed YAML, and
\* an error of another class, with every field in error listed, for
\* well-formed YAML that does not satisfy the schema; no instance is
\* returned in either case.
C26_DistinctErrorClasses ==
    [][\A c \in Callers :
         Deserialized(c) =>
             /\ ~YamlLoad(args[c].content).ok =>
                    result'[c] = "YAMLParseError" /\ ret'[c].kind # "model"
             /\ Unfit(args[c].content, args[c].schema) =>
                    /\ result'[c] \notin {"ok", "YAMLParseError"}
                    /\ ret'[c].kind # "model"]_vars

\* C26: deserialize raises YAMLParseError in both cases and returns no
\* instance: for malformed YAML with the message "Invalid YAML syntax" and
\* the YAMLError as its cause, for well-formed YAML that does not satisfy the
\* schema with the message "YAML data does not match schema" and with one
\* entry in details["validation_errors"] for every field in error.
C26_DeserializeErrors ==
    [][\A c \in Callers :
         Deserialized(c) =>
             /\ ~YamlLoad(args[c].content).ok =>
                    /\ result'[c] = "YAMLParseError"
                    /\ message'[c] = "Invalid YAML syntax"
                    /\ ret'[c] = Cause("YAMLError")
             /\ Unfit(args[c].content, args[c].schema) =>
                    /\ result'[c] = "YAMLParseError"
                    /\ message'[c] = "YAML data does not match schema"
                    /\ ret'[c].kind = "cause"
                    /\ ret'[c].value = "PydanticValidationError"
                    /\ {e[1] : e \in ret'[c].validation_errors} =
                          {Schema(args[c].schema)[k].key :
                               k \in Offending(YamlLoad(args[c].content).val,
                                               args[c].schema)}]_vars

\* C26 witness: deserialize refused a text with two fields in error and
\* listed both.
C26_Witness ==
    /\ pc["a"] = "idle" /\ result["a"] = "YAMLParseError"
    /\ message["a"] = "YAML data does not match schema"
    /\ ret["a"].kind = "cause" /\ ret["a"].value = "PydanticValidationError"
    /\ Cardinality(ret["a"].validation_errors) = 2

\* The text is a document without a node: nothing, line ends, a comment, or
\* the null "~".
NullDocument(text) == YamlLoad(text).ok /\ YamlLoad(text).val.t = "none"

AllDefaults(s) == Model(s, [i \in 1 .. Len(Schema(s)) |-> Schema(s)[i].default])

YamlFileStep(c) ==
    /\ pc'[c] # pc[c]
    /\ op[c] \in {"save", "load"} \/ op'[c] \in {"save", "load"}

\* The next step of save or load of caller c, or the call of one of them.
YamlFileNext(c) ==
    \/ StartSave(c) \/ SaveSerialize(c) \/ WriteMkdir(c) \/ WriteOpen(c) \/ WriteData(c)
    \/ StartLoad(c) \/ LoadRead(c) \/ LoadDeserialize(c)

\* Another caller holds the lock on path p: its marker is on disk and the
\* registry has its entry.
HeldByOther(c, p) ==
    /\ LockFile(p) \in fsFiles
    /\ \E d \in Callers \ {c} :
           lock[d].path = p /\ registry[handler[d]][p] = lock[d]

\* C28: no step of save or load creates or removes the marker of a lock or
\* changes a registry or the FileLock of a caller, and save and load never
\* wait: the call itself and every step of theirs that comes before or goes
\* to the file can be taken in every state, also while another caller holds
\* the lock on the same path (what follows the read of load is Deserialize,
\* a function of the text alone).
C28_NoLocking ==
    [][/\ \A c \in Callers :
            YamlFileStep(c) =>
                /\ UNCHANGED <<registry, lock, relCalls, wake, now, orphaned>>
                /\ \A p \in Nodes :
                       (LockFile(p) \in fsFiles') <=> (LockFile(p) \in fsFiles)
       /\ pc["a"] \in {"idle", "y_ser", "f_mkdir", "f_open", "f_data", "y_read"}
             => ENABLED YamlFileNext("a")]_vars

\* C28 witness: caller b holds the lock on the file while caller a is in the
\* middle of save, about to write to the file it opened.
C28_Witness ==
    /\ HeldByOther("a", YamlPath)
    /\ pc["b"] = "idle" /\ result["b"] = "acquired"
    /\ op["a"] = "save" /\ pc["a"] = "f_data" /\ path["a"] = YamlPath


\* The step of c is the existence check of get or delete.
RepoChecks(c, name) == op[c] = name /\ pc[c] = "r_exists" /\ pc'[c] # "r_exists"

\* The nodes other than p are as they were.
OthersKept(p) ==
    \A q \in Nodes \ {p} : KindAfter(q) = Kind(q) /\ fsContent'[q] = fsContent[q]

\* C29: when the file of the entity does not exist, the existence check of
\* get ends the call with None and that of delete ends it with false: no
\* load and no delete_file follows, nothing is raised and the tree is
\* unchanged. When the file exists, load or delete_file follows the check;
\* get returns the record that the text of the file deserializes to, and
\* delete removes the file, nothing else, and returns true. A check or a
\* removal whose system call fails (EACCES, EIO) is left out.
C29_GetDelete ==
    [][\A c \in Callers :
         /\ RepoChecks(c, "get") /\ ~RawFault(c) =>
                IF FileExists(path[c])
                THEN pc'[c] = "y_read" /\ result'[c] = "none"
                ELSE /\ pc'[c] = "idle" /\ result'[c] = "ok" /\ ret'[c] = None
                     /\ UNCHANGED fsVars
         /\ RepoChecks(c, "delete") /\ ~RawFault(c) =>
                IF FileExists(path[c])
                THEN pc'[c] = "r_unlink" /\ result'[c] = "none"
                ELSE /\ pc'[c] = "idle" /\ result'[c] = "ok" /\ ret'[c] = Bool(FALSE)
                     /\ UNCHANGED fsVars
         /\ op[c] = "get" /\ pc[c] = "y_read" /\ pc'[c] # "y_read"
            /\ FileExists(path[c]) /\ DecodeRaises(fsContent[path[c]]) = ""
            /\ ~EnvFailed(c) =>
                /\ pc'[c] = "y_deser"
                /\ args'[c].content = Decode(fsContent[path[c]])
         /\ Ends(c, "get", "y_deser")
            /\ Deserialize(args[c].content, ModelClass).result = "ok" =>
                /\ result'[c] = "ok"
                /\ ret'[c] = Deserialize(args[c].content, ModelClass).ret
                /\ ret'[c].kind = "model" /\ ret'[c].value.schema = ModelClass
         /\ Ends(c, "delete", "r_unlink") /\ FileExists(path[c]) /\ ~EnvFailed(c) =>
                /\ result'[c] = "ok" /\ ret'[c] = Bool(TRUE)
                /\ KindAfter(path[c]) = "absent"
                /\ OthersKept(path[c])]_vars

\* C29 witness: save wrote an instance to the file of the entity and get
\* returned it.
C29_Witness ==
    /\ pc["a"] = "idle" /\ result["a"] = "ok"
    /\ ret["a"] = YamlModel(Model(ModelClass, <<Str(<<"a", "CR", "LF">>), IntV(1)>>))
    /\ GetEntityPath("a") \in fsFiles

\* C29 witness of the other cases: delete returned false on a missing file.
C29_WitnessMissing ==
    /\ pc["a"] = "idle" /\ result["a"] = "ok" /\ ret["a"] = Bool(FALSE)
    /\ GetEntityPath("a") \notin fsFiles


\* Caller d owns the lock on p: acquire_lock returned the FileLock to it,
\* it has not called release_lock on it, and the marker and the entry of
\* the registry are in place.
OwnsLock(d, p) ==
    /\ Holds(d, p)
    /\ LockFile(p) \in fsFiles
    /\ registry[handler[d]][p] = lock[d]

\* C30: a FileLock is owned by its acquirer alone between acquire and
\* release: no step of another caller removes the marker or the registry
\* entry of the owner, also not a second release_lock on a FileLock of the
\* same path that was released before.
C30_ExclusiveOwner ==
    [][\A d \in Callers : \A p \in TargetPaths :
         OwnsLock(d, p) /\ pc'[d] = pc[d] /\ relCalls'[d] = relCalls[d] =>
             /\ LockFile(p) \in fsFiles'
             /\ registry'[handler[d]][p] = lock[d]]_vars


\* release_lock is running on the FileLock of c and has not returned.
Releasing(c, p) ==
    /\ lock[c] # NoLock /\ lock[c].path = p /\ relCalls[c] = 1
    /\ pc[c] \in {"rel_sync", "rel_dereg"}

\* C31: no intermediate state of a lock is observable through one handler:
\* whenever a caller holds a FileLock that acquire_lock returned and that it
\* has not passed to release_lock, the registry of its handler maps the path
\* to that FileLock; whenever no caller of a handler holds one, or is inside
\* release_lock with one, the registry of the handler has no entry for the
\* path.
C31_RegistryConsistent ==
    \A h \in Handlers : \A p \in TargetPaths :
        LET users == {c \in Callers : handler[c] = h}
        IN  /\ \A c \in users : Holds(c, p) => registry[h][p] = lock[c]
            /\ (\A c \in users : ~Holds(c, p) /\ ~Releasing(c, p)) =>
                   registry[h][p] = NoLock


\* C32: with a timeout above zero acquire_lock tries once per poll interval:
\* after an attempt that found the marker with elapsed < timeout it sleeps
\* one poll interval and tries again, so that it has made at most one
\* attempt per interval elapsed, plus the first. It fails with FileLockError
\* only at the check that follows an attempt that found the marker, and only
\* when elapsed >= timeout there; the failing call changes neither a
\* registry nor a FileLock nor the files: the marker stays.
C32_TimeoutPolling ==
    /\ [](\A c \in Callers :
            InAcquire(c) /\ timeout[c] > 0 =>
                attempts[c] * PollInterval <= (now - start_time[c]) + PollInterval)
    /\ [][\A c \in Callers :
            timeout[c] > 0 =>
                /\ pc[c] = "check" /\ pc'[c] # "check" =>
                       IF now - start_time[c] < timeout[c]
                       THEN pc'[c] = "sleep" /\ wake'[c] = now + PollInterval
                       ELSE /\ pc'[c] = "idle" /\ result'[c] = "FileLockError"
                            /\ UNCHANGED <<registry, lock, fsVars>>
                /\ pc[c] = "sleep" /\ pc'[c] # "sleep" =>
                       pc'[c] = "try" /\ now >= wake[c]
                /\ InAcquire(c) /\ result'[c] = "FileLockError" =>
                       /\ pc[c] = "check" /\ attempts[c] >= 1
                       /\ now - start_time[c] >= timeout[c]]_vars

\* C32 witness: a call with a timeout above zero has failed on a marker that
\* is still on disk, and the registry of its handler has no entry.
C32_Witness ==
    \E c \in Callers :
        /\ pc[c] = "idle" /\ result[c] = "FileLockError"
        /\ details[c].timeout > 0 /\ details[c].lock_file_exists
        /\ LockFile(details[c].path) \in fsFiles
        /\ registry[handler[c]][details[c].path] = NoLock
        /\ now >= details[c].timeout


\* C33: every call of acquire_lock ends (the timeouts of the calls are
\* finite): when time advances and the caller is run, the call returns the
\* FileLock or raises FileLockError, FileAccessError or FileOperationError,
\* whatever the other caller does.
C33_AcquireTerminates ==
    InAcquire("a") ~>
        /\ pc["a"] = "idle"
        /\ result["a"] \in {"acquired", "FileLockError", "FileAccessError",
                            "FileOperationError"}

\* C33 witness: a call that waited has ended with FileLockError while the
\* other caller holds the lock.
C33_Witness ==
    /\ pc["a"] = "idle" /\ result["a"] = "FileLockError"
    /\ details["a"].timeout > 0
    /\ Holds("b", details["a"].path) /\ LockFile(details["a"].path) \in fsFiles



\* Caller d has waited for the path of c's call for longer than c.
WaitsLonger(d, c) ==
    /\ d # c /\ InAcquire(d) /\ InAcquire(c)
    /\ path[d] = path[c]
    /\ attempts[d] >= 1 /\ start_time[d] < start_time[c]

\* C34: waiters are not served in FIFO order. The attempt of a caller,
\* first or repeated, that finds no marker takes the lock also when another caller has
\* been waiting for the same path for longer; and a waiter whose attempt
\* failed at or after its deadline raises FileLockError, whoever took and
\* released the lock while it slept.
C34_NoFifo ==
    [][\A c \in Pair :
          /\ (/\ pc[c] = "try"
              /\ LockFile(path[c]) \notin fsFiles
              /\ \E d \in Pair : WaitsLonger(d, c))
                 => ENABLED (TryAcquire(c) /\ pc'[c] = "got")
          /\ (/\ pc[c] = "check" /\ pc'[c] # "check"
              /\ timeout[c] > 0 /\ now - start_time[c] >= timeout[c])
                 => pc'[c] = "idle" /\ result'[c] = "FileLockError"]_vars

\* C34 witness: "b" started to wait after "a", polled twice and has taken
\* the lock that the holder released, while "a" is still asleep.
C34_Witness ==
    /\ pc["b"] = "got" /\ attempts["b"] >= 2
    /\ pc["a"] = "sleep" /\ WaitsLonger("a", "b")
    /\ relCalls[Holder] >= 1 /\ lock[Holder].path = path["b"]

\* C34 witness: the attempt of "a" at its deadline has failed, so that it
\* raises FileLockError next, although the lock it waited for was released
\* by the holder and taken by "b" after "a" had started to wait.
C34_WitnessTimeout ==
    /\ pc["a"] = "check" /\ attempts["a"] >= 2
    /\ timeout["a"] > 0 /\ now - start_time["a"] >= timeout["a"]
    /\ relCalls[Holder] >= 1 /\ lock[Holder].path = path["a"]
    /\ lock[Holder].acquired_at <= start_time["a"]
    /\ Holds("b", path["a"]) /\ lock["b"].acquired_at > start_time["a"]


\* A step of a file operation that caller c calls without locked().
PlainStep(c) ==
    PlainRead(c) \/ PlainWriteOpen(c) \/ PlainWrite(c) \/ PlainDelete(c)

\* C35: the lock is advisory. read_file, write_file and delete_file called
\* without locked() are never held up by a marker or a registry entry (their
\* next step can always be taken, also while another caller holds the lock
\* of the path) and change neither; a write puts what its caller read plus
\* its own value, whatever was written since (the last writer wins).
C35_Advisory ==
    [][\A c \in Plain :
          /\ pc[c] \in {"p_read", "p_open", "p_write", "p_unlink"}
                => ENABLED PlainStep(c)
          /\ PlainStep(c) =>
                /\ UNCHANGED <<registry, lock, relCalls, wake, orphaned>>
                /\ \A p \in TargetPaths :
                       (LockFile(p) \in fsFiles') <=> (LockFile(p) \in fsFiles)
          /\ \A w \in Callers :
                pc[w] \in {"write", "p_write"} /\ pc'[w] # pc[w]
                    => fsContent'[path[w]] = Append(cur[w], w)]_vars

\* C35 witness: "b" is writing the path without the lock while "a" holds
\* the lock of the path and is inside its scope.
C35_Witness ==
    \E p \in TargetPaths :
        /\ pc["b"] = "p_write" /\ path["b"] = p
        /\ pc[Locker] \in {"read", "open", "write"} /\ path[Locker] = p
        /\ LockFile(p) \in fsFiles /\ registry[handler[Locker]][p] = lock[Locker]
        /\ lock[Locker] # NoLock

\* C35 witness: both cycles have completed, no delete ran, and the update
\* that "a" made inside locked() is lost: the file holds the value of "b"
\* only.
C35_WitnessLost ==
    \E p \in TargetPaths :
        /\ result[Locker] = "left" /\ result["b"] = "written"
        /\ pc[Locker] = "idle" /\ pc["b"] = "idle" /\ result["c"] = "none"
        /\ fsContent[p] = <<"initial", "b">>


\* C36: a get(id) that runs beside a delete of the same id ends with the
\* stored record or with None; it never raises the not-found error of the
\* file layer, also when the file is removed between the existence check
\* and the load.
C36_GetNeverNotFound ==
    [][\A c \in Callers :
          op[c] = "get" /\ pc[c] # "idle" /\ pc'[c] = "idle"
              => result'[c] # "AppFileNotFoundError"]_vars


\* Caller c takes the first step of copy_file or move_file.
CopyMkdirStep(c) ==
    op[c] \in {"copy_file", "move_file"} /\ pc[c] = "f_destdir" /\ pc'[c] # "f_destdir"

\* C37: copy_file and move_file create the missing parent directories of
\* the destination before they look at the source. The first step creates
\* directories on the way to the destination, whether the source exists or
\* not, changes nothing else and never reports a missing source; the step
\* that raises AppFileNotFoundError comes after it and changes nothing, so
\* that the new directories are all that the failed call has changed.
C37_ParentsFirst ==
    [][\A c \in Callers :
         /\ CopyMkdirStep(c) =>
               /\ fsFiles' = fsFiles /\ fsContent' = fsContent
               /\ \A x \in FileDirs :
                      dirKind'[x] # dirKind[x] =>
                          /\ dirKind[x] = "absent" /\ dirKind'[x] = "dir"
                          /\ x \in UpTo(args[c].dest.parent)
               /\ result'[c] # "AppFileNotFoundError"
               /\ (/\ MkdirParentsRaises(args[c].dest.parent, "none") = ""
                   /\ ~EnvFailed(c))
                      => /\ pc'[c] \in {"f_copy", "f_move"}
                         /\ \A x \in UpTo(args[c].dest.parent) : dirKind'[x] = "dir"
         /\ (/\ op[c] \in {"copy_file", "move_file"}
             /\ result'[c] = "AppFileNotFoundError")
                => /\ pc[c] \in {"f_copy", "f_move"}
                   /\ UNCHANGED fsVars]_vars

\* C37 witness: copy_file of the missing d/a.txt to d/sub/a.txt has made the
\* directories d and d/sub, which hold nothing, and is about to open the
\* source.
C37_Witness ==
    /\ pc["a"] = "f_copy" /\ path["a"] = FA /\ args["a"].dest = FS
    /\ Kind(FA) = "absent" /\ Kind(FS) = "absent"
    /\ dirKind["d"] = "dir" /\ dirKind["d/sub"] = "dir"


\* C38: save serializes the instance completely before it writes. The
\* serialization step changes nothing on disk; when it fails the call ends
\* there with YAMLParseError (no file created, truncated or modified, no
\* directory made); and every step of write_file inside a save has the
\* complete text of an instance that serialized without error.
C38_SerializeFirst ==
    [][\A c \in Callers :
         /\ op[c] = "save" /\ pc[c] = "y_ser" /\ pc'[c] # "y_ser" =>
               /\ UNCHANGED fsVars
               /\ IF Serialize(args[c].model).result = "ok"
                  THEN /\ pc'[c] = "f_mkdir"
                       /\ args'[c].content = Serialize(args[c].model).ret.value
                  ELSE pc'[c] = "idle" /\ result'[c] = "YAMLParseError"
         /\ op[c] = "save" /\ pc[c] \in {"f_mkdir", "f_open", "f_data"} =>
               /\ Serialize(args[c].model).result = "ok"
               /\ args[c].content = Serialize(args[c].model).ret.value
         /\ op[c] = "save" /\ ~UNCHANGED fsVars =>
               pc[c] \in {"f_mkdir", "f_open", "f_data"}]_vars

\* C38 witness: save of an instance that cannot be serialized is at its
\* serialization step, and the file it is given exists with content.
C38_Witness ==
    /\ op["a"] = "save" /\ pc["a"] = "y_ser"
    /\ Serialize(args["a"].model).result = "YAMLParseError"
    /\ Kind(path["a"]) = "file" /\ fsContent[path["a"]] # <<>>

\* C38 witness: the same with the directory of the file missing.
C38_WitnessNoDir ==
    /\ op["a"] = "save" /\ pc["a"] = "y_ser"
    /\ Serialize(args["a"].model).result = "YAMLParseError"
    /\ dirKind[path["a"].parent] = "absent"


\* The callers inside the body of `async with self._lock`.
InBucket == {c \in Callers : pc[c] = "rl_sleep"}

\* A step that takes caller c through the loop of acquire.
BucketStep(c) == LimiterAcquire(c) \/ LimiterGrant(c) \/ LimiterWake(c)

\* C39: the bucket never holds less than nothing or more than its capacity,
\* in particular after a completed acquire; a caller that has the lock and
\* finds at least the tokens it asks for returns in that step, without a
\* sleep, with exactly that many tokens taken; every return takes exactly
\* the tokens asked for from what the bucket holds, refilled or not; and at
\* most one caller is inside the body of the lock at a time.
C39_Bucket ==
    /\ [](/\ 0 <= tokens /\ tokens <= Capacity
          /\ Cardinality(InBucket) <= 1
          /\ InBucket # {} => is_locked)
    /\ [][\A c \in Callers :
            /\ BucketStep(c) /\ pc'[c] # "rl_queued" /\ tokens >= want'[c] =>
                  /\ pc'[c] = "idle" /\ result'[c] = "granted"
                  /\ tokens' = tokens - want'[c]
            /\ BucketStep(c) /\ pc'[c] = "idle" =>
                  /\ tokens' \in {tokens - want'[c], Refilled - want'[c]}
                  /\ 0 <= tokens' /\ tokens' <= Capacity
                  /\ ~is_locked'
            /\ BucketStep(c) /\ pc'[c] = "rl_sleep" =>
                  /\ tokens' < want'[c] /\ tokens' = Refilled
                  /\ \A d \in Callers \ {c} : pc[d] # "rl_sleep"]_vars

\* C39 witness: a caller has returned with all the tokens of the bucket
\* while another call, made while the lock was held, waits for the lock.
C39_Witness ==
    \E c, d \in Callers :
        /\ pc[c] = "idle" /\ result[c] = "granted" /\ want[c] = Capacity
        /\ tokens = 0 /\ since_update = 0
        /\ pc[d] = "rl_queued" /\ waiters = <<d>> /\ ~is_locked


\* The place of caller c among the waiters of the lock (0: it does not wait).
PlaceOf(c) ==
    IF \E i \in 1 .. Len(waiters) : waiters[i] = c
    THEN CHOOSE i \in 1 .. Len(waiters) : waiters[i] = c
    ELSE 0

\* The callers that get the lock before the waiting caller c: its holder
\* and the waiters in front of c.
Ahead(c) ==
    IF pc[c] = "rl_queued"
    THEN InBucket \cup {waiters[i] : i \in 1 .. PlaceOf(c) - 1}
    ELSE {}

\* Caller c is in a call that asks for more than the bucket ever holds.
AsksTooMuch(c) == pc[c] \in {"rl_sleep", "rl_queued"} /\ want[c] > Capacity

\* C40: when time advances, a call of acquire(n) with n <= capacity
\* returns, unless a call that asks for more than the capacity has the lock
\* or waits for it in front of it. A call with n > capacity never returns:
\* once it has the lock it keeps it and sleeps again and again, and no
\* caller that waits for the lock, then or later, ever returns.
C40_Returns ==
    /\ \A c \in Callers :
          (/\ pc[c] \in {"rl_sleep", "rl_queued"} /\ want[c] <= Capacity
           /\ \A d \in Ahead(c) : want[d] <= Capacity)
              ~> (pc[c] = "idle" /\ result[c] = "granted")
    /\ [][\A c \in Callers :
            /\ AsksTooMuch(c) => pc'[c] # "idle"
            /\ BucketStep(c) /\ want'[c] > Capacity => pc'[c] # "idle"
            /\ AsksTooMuch(c) /\ pc[c] = "rl_sleep" =>
                  /\ pc'[c] = "rl_sleep" /\ is_locked'
                  /\ \A d \in Callers \ {c} :
                        /\ pc'[d] \in {pc[d], "rl_queued"}
                        /\ result'[d] # result[d] => pc'[d] = "rl_queued"]_vars

\* C40 witness: a call for more than the capacity sleeps with the lock, the
\* bucket is full, and two calls for one token each wait for the lock.
C40_Witness ==
    \E c \in Callers :
        /\ pc[c] = "rl_sleep" /\ want[c] = Capacity + 1
        /\ tokens = Capacity /\ is_locked /\ wait_time = 0
        /\ Len(waiters) = 2
        /\ \A d \in Callers \ {c} : pc[d] = "rl_queued" /\ want[d] = 1

\* C40 witness of the calls that return: a call for the whole bucket has
\* returned after a call that emptied it.
C40_WitnessReturned ==
    \E c, d \in Callers :
        /\ c # d /\ pc[c] = "idle" /\ result[c] = "granted" /\ want[c] = Capacity
        /\ pc[d] = "idle" /\ result[d] = "granted" /\ want[d] = Capacity
        /\ tokens = 0 /\ since_update = 0 /\ ~is_locked /\ waiters = <<>>

====
